---------------------------- MODULE Spec2Model ----------------------------
(***************************************************************************)
(* Astro-Baba content service: the daily composer (src/server.js and the   *)
(* agents), the per-day caches of the earlier server versions              *)
(* (src/unnamed/part_002, part_004), the file-backed cache helpers, the    *)
(* translate adapter and the HTTP route handlers.                          *)
(*                                                                         *)
(* Strings are modelled structurally: a text drawn from a fixed pool is    *)
(* the pair of the pool's name and the index drawn, a formatted date or    *)
(* clock time is the tuple of the numbers it prints.  32-bit unsigned      *)
(* integers are pairs <<hi, lo>> of 16-bit limbs.                          *)
(***************************************************************************)
EXTENDS Integers, Sequences, FiniteSets, TLC

VARIABLES
    \* environment
    tzOffset,        \* server's local UTC offset in minutes (-getTimezoneOffset())
    intlOk,          \* Intl.DateTimeFormat with Asia/Kolkata is available
    apiKey,          \* OPENAI_API_KEY is set (non-empty)
    today,           \* istDateKey(): the IST date now, as a day number
    wall,            \* position of the wall clock on the Timeline
    \* calls of composeDaily (src/server.js)
    composed,        \* the two latest calls and the records they returned
    \* src/unnamed/part_002: per-day cache of generated texts
    dailyCacheDate,  \* 0 for null
    dailyCache,      \* sign -> <<>> or <<[text, generatedAtISO]>>
    reqs,            \* GET /daily requests: position and response
    \* src/unnamed/part_004: per-date cache of the orchestrated daily
    currentDateISO,  \* 0 for null
    enCache,         \* sign -> <<>> or <<[text, generatedAtISO]>>
    langCache,       \* sign -> <<>> or <<[lang -> <<>> or <<text>>]>>
    jobs,            \* GET /daily and GET /weekly requests
    didReset,        \* the latest step called resetCache
    \* src/server.js: memory map and per-date files of the daily cache
    dailyCacheMap,   \* cacheKey -> <<>> or <<content>>
    files,           \* file path -> <<>> or <<file text>>
    written,         \* cacheKey -> <<>> or <<content of the latest saveCachedDaily>>
    lastGet,         \* the latest loadCachedDaily call and what it returned
    \* src/agents/translate.js
    cache,           \* the translation cache, in insertion order
    trOut,           \* the latest translateAgent call and its outcome
    \* route handlers
    served,          \* the two latest requests served, with their responses
    \* POST /chat/stream (src/unnamed/part_001, part_002)
    sse,             \* one streaming request: position, upstream, writes
    \* PDF reports
    pdf,             \* the two latest report requests: logo sent, document written
    \* helpers and agents called on their own
    probe,           \* the latest call and what it returned
    \* PDF report routes from doc.pipe(res) on
    rep,             \* one report request: position, headers, document, response
    \* prewarm runs and GET /cache/daily (src/server.js)
    pw               \* memory map, files, keys stored, the latest GET

envVars     == <<tzOffset, intlOk, apiKey, today, wall>>
composeVars == <<composed>>
day2Vars    == <<dailyCacheDate, dailyCache, reqs>>
day4Vars    == <<currentDateISO, enCache, langCache, jobs, didReset>>
fileVars    == <<dailyCacheMap, files, written, lastGet>>
trVars      == <<cache, trOut>>
routeVars   == <<served>>
extVars     == <<sse, pdf, probe, rep, pw>>
vars == <<envVars, composeVars, day2Vars, day4Vars, fileVars, trVars, routeVars,
          extVars>>

\* ------------------------------------------------------------------------
\* 32-bit unsigned arithmetic on <<hi, lo>> limbs
\* ------------------------------------------------------------------------
Limb == 65536

U32Mod(u, m) == (((u[1] % m) * (Limb % m)) + (u[2] % m)) % m

\* (u + n) >>> 0 for a small non-negative n
U32Add(u, n) ==
    LET lo == u[2] + n
    IN  <<(u[1] + (lo \div Limb)) % Limb, lo % Limb>>

RECURSIVE Xor(_, _, _)
\* a ^ b on the low `bits` bits
Xor(a, b, bits) ==
    IF bits = 0 THEN 0
    ELSE ((a + b) % 2) + 2 * Xor(a \div 2, b \div 2, bits - 1)

\* h ^= c for a code unit c < 256 (the model's strings are ASCII): only the
\* low byte of h changes
U32XorCode(u, c) == <<u[1], ((u[2] \div 256) * 256) + Xor(u[2] % 256, c, 8)>>

\* Math.imul(h, 16777619): 16777619 = 0x0100 * 65536 + 0x0193
FnvPrime == <<256, 403>>
U32Imul(u, p) ==
    LET low == u[2] * p[2]
    IN  <<((u[1] * p[2]) + (u[2] * p[1]) + (low \div Limb)) % Limb, low % Limb>>

\* 2166136261 = 0x811C9DC5
FnvBasis == <<33052, 40389>>

RECURSIVE HashFrom(_, _, _)
HashFrom(h, s, i) ==
    IF i > Len(s) THEN h
    ELSE LET nh == U32Imul(U32XorCode(h, s[i]), FnvPrime)
         IN  IF nh[2] >= 0 THEN HashFrom(nh, s, i + 1) ELSE nh

\* hashCode(s), s a sequence of UTF-16 code units
hashCode(s) == HashFrom(FnvBasis, s, 1)

\* k = (k * 1664525 + 1013904223) >>> 0
\* 1664525 = 0x0019 * 65536 + 0x660D, 1013904223 = 0x3C6E * 65536 + 0xF35F
LcgMul == <<25, 26125>>
LcgInc == <<15470, 62303>>
\* a generator that never moves
LcgStuck(k) == k
LcgStep(k) ==
    LET m  == U32Imul(k, LcgMul)
        lo == m[2] + LcgInc[2]
    IN  <<(m[1] + LcgInc[1] + (lo \div Limb)) % Limb, lo % Limb>>

\* ------------------------------------------------------------------------
\* Seeded selector (agents/utils.js)
\* ------------------------------------------------------------------------
\* pick(arr, seed) with seed = base + add (a double, no wrap): the index drawn,
\* 1-based; 0 stands for arr[0] of an empty array (undefined)
pick(len, base, add) ==
    IF len = 0 THEN 0 ELSE ((U32Mod(base, len) + add) % len) + 1

Min(a, b) == IF a < b THEN a ELSE b

PickNFuel == 64
\* what the model returns for a loop still running when the fuel is spent:
\* no index is 0
Diverges == <<0>>
RECURSIVE PickNLoopNoSkip(_, _, _, _, _)
\* the loop without the used set
PickNLoopNoSkip(len, n, k, out, fuel) ==
    IF Len(out) >= Min(n, len) THEN out
    ELSE IF fuel = 0 THEN Diverges
    ELSE LET nk == LcgStep(k)
             nout == Append(out, U32Mod(k, len) + 1)
         IN  IF nk[2] >= 0 /\ Len(nout) >= 0
             THEN PickNLoopNoSkip(len, n, nk, nout, fuel - 1) ELSE nout

\* the while loop of pickN; fuel bounds the iterations explored
RECURSIVE PickNLoop(_, _, _, _, _)
PickNLoop(len, n, k, out, fuel) ==
    IF Len(out) >= Min(n, len) THEN out
    ELSE IF fuel = 0 THEN Diverges
    ELSE LET idx == U32Mod(k, len) + 1
             used == \E j \in 1..Len(out) : out[j] = idx
             nk == LcgStep(k)
             nout == IF used THEN out ELSE Append(out, idx)
         IN  IF nk[2] >= 0 /\ Len(nout) >= 0
             THEN PickNLoop(len, n, nk, nout, fuel - 1) ELSE nout

\* pickN(arr, n, seed): the sequence of (1-based) indices drawn
pickN(len, n, seed) == PickNLoop(len, n, seed, <<>>, PickNFuel)


\* ------------------------------------------------------------------------
\* Clocks and the calendar.  An instant is a number of minutes since
\* 2025-01-01T00:00Z; a clock reading is an instant shifted by an offset.
\* ------------------------------------------------------------------------
MinutesPerDay == 1440
IstShift == 330

MonthStart == <<0, 31, 59, 90, 120, 151, 181, 212, 243, 273, 304, 334>>

DayNumber(clock) == clock \div MinutesPerDay
MonthOf(dn) ==
    CHOOSE m \in 1..12 :
        /\ MonthStart[m] <= dn
        /\ (m = 12 \/ dn < MonthStart[m + 1])
DomOf(dn) == dn - MonthStart[MonthOf(dn)] + 1
\* 2025-01-01 is a Wednesday; Sunday = 0
WeekdayOf(dn) == (3 + dn) % 7

\* what a calendar formatter prints for a clock reading
Civil(clock) ==
    [y |-> 2025, m |-> MonthOf(DayNumber(clock)), d |-> DomOf(DayNumber(clock)),
     hm |-> clock % MinutesPerDay, wd |-> WeekdayOf(DayNumber(clock))]

\* makeISTDate: epoch of the IST-shifted Date
\*   base.getTime() + base.getTimezoneOffset()*60000 + 330*60000
makeISTDate(t, tz) == t - tz + IstShift

\* the getUTC* getters of a Date with epoch e
UtcGetters(e, tz) == e
\* local-time getters (getDate, getMonth, getDay) of a Date with epoch e
LocalClock(e, tz) == e + tz
\* Intl / toLocale*String with timeZone 'Asia/Kolkata' of a Date with epoch e
KolkataClock(e) == e + IstShift

\* toISTParts(d) of agents/utils.js: the try branch when Intl is available,
\* the catch branch (getUTC* of the shifted Date) otherwise
toISTParts(t, tz, intl) ==
    LET ist == makeISTDate(t, tz)
        c   == IF intl THEN Civil(KolkataClock(t)) ELSE Civil(ist)
    IN  [ist |-> ist,
         dateStr |-> <<c.y, c.m, c.d>>,
         timeStr |-> c.hm,
         weekdayIndex |-> c.wd]

\* dayDateHeaderUpper(lang, d): weekday, day, month, year in Asia/Kolkata
dayDateHeaderUpper(lang, e) ==
    LET c == Civil(KolkataClock(e))
    IN  <<lang, c.wd, c.d, c.m, c.y>>

\* ------------------------------------------------------------------------
\* Signs
\* ------------------------------------------------------------------------
Zodiac == <<"aries", "taurus", "gemini", "cancer", "leo", "virgo", "libra",
            "scorpio", "sagittarius", "capricorn", "aquarius", "pisces">>
SIGNS == {Zodiac[i] : i \in 1..12}

Alphabet == <<"a","b","c","d","e","f","g","h","i","j","k","l","m",
              "n","o","p","q","r","s","t","u","v","w","x","y","z">>
Ord(ch) == 96 + (CHOOSE i \in 1..26 : Alphabet[i] = ch)

\* the letters of the (lower-cased) sign strings the model uses
Spelling ==
    [aries |-> <<"a","r","i","e","s">>, taurus |-> <<"t","a","u","r","u","s">>,
     gemini |-> <<"g","e","m","i","n","i">>, cancer |-> <<"c","a","n","c","e","r">>,
     leo |-> <<"l","e","o">>, virgo |-> <<"v","i","r","g","o">>,
     libra |-> <<"l","i","b","r","a">>, scorpio |-> <<"s","c","o","r","p","i","o">>,
     sagittarius |-> <<"s","a","g","i","t","t","a","r","i","u","s">>,
     capricorn |-> <<"c","a","p","r","i","c","o","r","n">>,
     aquarius |-> <<"a","q","u","a","r","i","u","s">>,
     pisces |-> <<"p","i","s","c","e","s">>,
     dragon |-> <<"d","r","a","g","o","n">>,
     empty |-> <<>>]
\* "empty" stands for the empty string
CodesOf(sign) == [i \in 1..Len(Spelling[sign]) |-> Ord(Spelling[sign][i])]

\* signIndex(sign): 0-based index in zodiac order, 0 for an unknown sign
signIndex(sign) ==
    IF sign \in SIGNS THEN (CHOOSE i \in 1..12 : Zodiac[i] = sign) - 1 ELSE 0

\* code units of a zero-padded decimal
Digits2(n) == <<48 + (n \div 10), 48 + (n % 10)>>
Digits4(n) == <<48 + (n \div 1000), 48 + ((n \div 100) % 10)>> \o Digits2(n % 100)
Dash == 45
Bar == 124
DateCodes(ds) == Digits4(ds[1]) \o <<Dash>> \o Digits2(ds[2]) \o <<Dash>> \o Digits2(ds[3])
\* dateStr.slice(0, 7)
MonthSaltCodes(ds) == SubSeq(DateCodes(ds), 1, 7)

\* hashCode(`${monthSalt}|${s}|${dateStr}`)
SeedOf(sign, ds) ==
    hashCode(MonthSaltCodes(ds) \o <<Bar>> \o CodesOf(sign) \o <<Bar>> \o DateCodes(ds))

\* ------------------------------------------------------------------------
\* Agents
\* ------------------------------------------------------------------------
\* pool sizes of agents/variety.js, fortuneLine.js, quoteMood.js
LeadsLen == 13
OppPoolLen == 10
CautPoolLen == 8
ColorsLen == 14
QuotesLen == 7
AffirmationsLen == 6
MoodsLen == 5

\* varietyAgent({sign, seed, weekdayIndex})
varietyAgent(sign, seed, weekdayIndex) ==
    LET opp  == pickN(OppPoolLen, 3, U32Add(seed, 101))
        caut == pickN(CautPoolLen, 3, U32Add(seed, 211))
    IN  [themeLead |-> <<"LEADS", pick(LeadsLen, seed, signIndex(sign) * 7)>>,
         opportunities |-> [i \in 1..Len(opp) |-> <<"OPP_POOL", opp[i]>>],
         cautions |-> [i \in 1..Len(caut) |-> <<"CAUT_POOL", caut[i]>>],
         remedy |-> <<"REMEDY_MAP", IF weekdayIndex \in 0..6 THEN weekdayIndex ELSE 0>>]

\* fortuneLineAgent({sign, ist, seed, lang}); ist.getDate() is a local getter
fortuneLineAgent(sign, ist, seed, lang, tz) ==
    LET luckyNumber == ((Civil(LocalClock(ist, tz)).d + signIndex(sign)) % 9) + 1
        color == pick(ColorsLen, seed, 17)
    IN  [luckyNumber |-> luckyNumber,
         luckyColor |-> [lang |-> lang, color |-> color],
         luckyLine |-> [color |-> color, number |-> luckyNumber]]

\* seed >> 5: ToInt32, then an arithmetic shift
SignedShift5(seed) ==
    IF seed[1] < 32768 THEN (seed[1] * 2048) + (seed[2] \div 32)
    ELSE ((seed[1] - Limb) * 2048) + (seed[2] \div 32)
\* a % b of JavaScript: the sign of the dividend
JsRem(a, b) == IF a >= 0 THEN a % b ELSE -((-a) % b)

\* quoteMoodAgent(seed)
quoteMoodAgent(seed) ==
    [quote |-> <<"QUOTES", pick(QuotesLen, seed, 31)>>,
     affirmation |-> <<"AFFIRMATIONS", pick(AffirmationsLen, seed, 63)>>,
     mood |-> <<"MOODS", pick(MoodsLen, seed, 95)>>,
     waterGlasses |-> 8 + JsRem(SignedShift5(seed), 5)]

\* dayDeityAgent(weekdayIndex, lang)
dayDeityAgent(weekdayIndex, lang) ==
    <<"DOW_INFO", IF weekdayIndex \in 0..6 THEN weekdayIndex ELSE 0, lang>>

\* formatAgent({lang, dateIST, deityPair})
formatAgent(lang, dateIST, deityPair) ==
    [dayHeader |-> dayDateHeaderUpper(lang, dateIST),
     deitySentenceParts |-> <<lang, deityPair>>]

\* month-day keys of FIXED_DAYS
FIXED_DAYS == {<<1, 1>>, <<1, 26>>, <<8, 15>>, <<10, 2>>, <<12, 25>>}

\* a user's dob is the pair <<month, day>> of its "YYYY-MM-DD" string, each
\* a sequence of digits as written; <<>> when the user or the dob is missing.
\* A nullable value is a sequence: <<>> for null, <<v>> for v.
Pad2(n) == <<n \div 10, n % 10>>
NoUser == [name |-> "", dob |-> <<>>]

\* the agent without its null return
specialDayAlways(now, lang, user, tz, intl) ==
    LET c == Civil(LocalClock(toISTParts(now, tz, intl).ist, tz))
    IN  <<[title |-> <<lang, "Special Day">>,
           birthday |-> IF user.dob # <<>>
                           /\ user.dob[1] = Pad2(c.m) /\ user.dob[2] = Pad2(c.d)
                        THEN <<[lang |-> lang, name |-> user.name]>> ELSE <<>>,
           observance |-> IF <<c.m, c.d>> \in FIXED_DAYS
                          THEN <<[lang |-> lang, m |-> c.m, d |-> c.d]>> ELSE <<>>]>>

\* specialDayAgent({now, lang, user}); ist.getMonth(), ist.getDate() are local getters
specialDayAgent(now, lang, user, tz, intl) ==
    LET c  == Civil(LocalClock(toISTParts(now, tz, intl).ist, tz))
        birthday == IF user.dob # <<>>
                       /\ user.dob[1] = Pad2(c.m) /\ user.dob[2] = Pad2(c.d)
                    THEN <<[lang |-> lang, name |-> user.name]>> ELSE <<>>
        fixedMsg == IF <<c.m, c.d>> \in FIXED_DAYS
                    THEN <<[lang |-> lang, m |-> c.m, d |-> c.d]>> ELSE <<>>
    IN  IF birthday = <<>> /\ fixedMsg = <<>> THEN <<>>
        ELSE <<[title |-> <<lang, "Special Day">>, birthday |-> birthday,
                observance |-> fixedMsg]>>

\* approxVedicSlots12h(weekday) of src/server.js; "-" stands for the en dash
approxVedicSlots12h(weekday) ==
    [rahuKaal |-> <<"16:30-18:00", "07:30-09:00", "15:00-16:30", "12:00-13:30",
                    "13:30-15:00", "10:30-12:00", "09:00-10:30">>[weekday + 1],
     yamaganda |-> <<"12:00-13:30", "10:30-12:00", "09:00-10:30", "07:30-09:00",
                     "06:00-07:30", "15:00-16:30", "13:30-15:00">>[weekday + 1],
     gulikaKaal |-> <<"15:00-16:30", "13:30-15:00", "12:00-13:30", "10:30-12:00",
                      "09:00-10:30", "07:30-09:00", "06:00-07:30">>[weekday + 1],
     abhijitMuhurat |-> "12:05-12:52"]

\* panchangAgent() takes no argument: the four windows of the wall clock's
\* IST weekday (agents/panchang.js is not part of the sources)
panchangAgent(wallNow) == approxVedicSlots12h(Civil(KolkataClock(wallNow)).wd)

\* tx(lang, v) followed by cleanHi when no LLM is involved: a fixed function
\* of the English text and the language
tx(lang, v) == [lang |-> lang, src |-> v]
txList(lang, vs) == [i \in 1..Len(vs) |-> tx(lang, vs[i])]

\* ------------------------------------------------------------------------
\* composeDaily({sign, lang, now, user}) of src/server.js; wallNow is the wall
\* clock at the call (now defaults to it)
\* ------------------------------------------------------------------------
composeDaily(sign, lang, now, user, wallNow, tz, intl) ==
    LET p        == toISTParts(now, tz, intl)
        seed     == SeedOf(sign, p.dateStr)
        deity    == dayDeityAgent(p.weekdayIndex, lang)
        format   == formatAgent(lang, p.ist, deity)
        variety  == varietyAgent(sign, seed, p.weekdayIndex)
        fortune  == fortuneLineAgent(sign, p.ist, seed, lang, tz)
        qm       == quoteMoodAgent(seed)
        themeLead == tx(lang, variety.themeLead)
        opp      == txList(lang, variety.opportunities)
        caut     == txList(lang, variety.cautions)
        remedy   == tx(lang, variety.remedy)
        luckyLine == tx(lang, fortune.luckyLine)
    IN  [date |-> p.dateStr,
         timeIST |-> <<Civil(KolkataClock(p.ist)).hm, lang>>,
         lang |-> lang,
         sign |-> sign,
         signLabel |-> <<lang, sign>>,
         header |-> [dayHeader |-> format.dayHeader],
         greeting |-> <<lang, "greeting">>,
         deityLine |-> format.deitySentenceParts,
         quote |-> tx(lang, qm.quote),
         affirmation |-> tx(lang, qm.affirmation),
         mood |-> tx(lang, qm.mood),
         waterGlasses |-> qm.waterGlasses,
         themeLead |-> themeLead,
         luckyLine |-> luckyLine,
         sections |-> [opportunities |-> opp, cautions |-> caut, remedy |-> remedy],
         vedic |-> panchangAgent(wallNow),
         policy |-> <<lang, "policy">>,
         special |-> specialDayAgent(now, lang, user, tz, intl),
         text |-> <<<<lang, sign>>, p.dateStr, themeLead, luckyLine, opp, caut, remedy>>]

\* ------------------------------------------------------------------------
\* Calls of the composer
\* ------------------------------------------------------------------------
\* server time zones explored: UTC, IST, US Eastern (standard time)
TzOffsets == {0, 330, -300}
\* instants explored: 26 Jan 2025 at 00:00, 14:00 and 20:00 UTC, that is
\* 05:30 and 19:30 IST of 26 Jan and 01:30 IST of 27 Jan
InstantDays == {25}
InstantMinutes == {0, 840, 1200}
Instants == {(d * MinutesPerDay) + m : d \in InstantDays, m \in InstantMinutes}
ComposeSigns == {"leo", "dragon"}
Langs == {"en", "hi"}
Users == {NoUser, [name |-> "Asha", dob |-> <<Pad2(1), Pad2(26)>>]}

\* the IST calendar date of an instant
IstDate(t) == LET c == Civil(KolkataClock(t)) IN <<c.y, c.m, c.d>>

NoCall == [now |-> -1]

\* one call composeDaily({sign, lang, now, user}); the model keeps the two
\* latest calls
ComposeCall ==
    \E sign \in ComposeSigns, lang \in Langs, now \in Instants, user \in Users :
        /\ composed' = <<composed[2],
                         [now |-> now, sign |-> sign, lang |-> lang, user |-> user,
                          rec |-> composeDaily(sign, lang, now, user, now, tzOffset, intlOk)]>>
        /\ UNCHANGED <<extVars, envVars, day2Vars, day4Vars, fileVars, trVars, routeVars>>

\* two calls with the same sign, language and user at instants of one IST date
SameKey(a, b) ==
    /\ a.now >= 0 /\ b.now >= 0
    /\ a.sign = b.sign /\ a.lang = b.lang /\ a.user = b.user
    /\ IstDate(a.now) = IstDate(b.now)

\* C1: for a fixed (sign, lang, date), two calls of composeDaily at any two
\* instants of that IST date return identical records, no field differing.
C1_ByteIdentical ==
    SameKey(composed[1], composed[2]) => composed[1].rec = composed[2].rec


\* ------------------------------------------------------------------------
\* src/unnamed/part_002: a text per sign generated once per IST day, kept in
\* dailyCache and served by GET /daily
\* ------------------------------------------------------------------------
\* String(req.query.sign || '').toLowerCase() on the query values explored;
\* "" is a missing or empty parameter
Lower(q) == IF q = "Aries" THEN "aries" ELSE q
QuerySigns == {"leo", "Aries", "dragon", ""}
CacheSigns == {"leo", "aries"}

\* what the completion service answers to one call: a 200 with a text (the
\* sampling temperature is 0.6, so the text varies), a 200 without content or
\* with a body that is not JSON, a non-2xx status, or no answer at all
Replies ==
    {[kind |-> "ok", text |-> "llm_a"], [kind |-> "ok", text |-> "llm_b"],
     [kind |-> "ok", text |-> ""], [kind |-> "badjson", text |-> ""],
     [kind |-> "status", text |-> ""], [kind |-> "neterr", text |-> ""]}

NoResp == [status |-> 0, error |-> "", date |-> 0, sign |-> "", text |-> <<>>,
           generatedAt |-> 0, vedic |-> 0]
ErrorResp(status, msg) == [NoResp EXCEPT !.status = status, !.error = msg]
InvalidSign == "Invalid sign. Use: aries, ..., pisces"
ServerError == "Server error"

NumReqs == 2
ReqIds == 1..NumReqs
NewReq == [pc |-> "new", sign |-> "", upstream |-> "none", resp |-> NoResp]
MaxDay == 2

EmptyDaily == [s \in CacheSigns |-> <<>>]

\* ensureNewDay(): the cache after the call
ensureNewDay(date, c, now) == IF date # now THEN EmptyDaily ELSE c

\* the two fixed texts of generateDailyTextForDate
FallbackNoKey(sign) == <<"Keep your focus tight", sign>>
FallbackError(sign) == <<"Focus on essentials", sign>>

\* res.json({date, sign, text, vedic, generatedAt}) of GET /daily
DailyJson(date, sign, entry, now) ==
    [status |-> 200, error |-> "", date |-> date, sign |-> sign, text |-> entry.text,
     generatedAt |-> entry.generatedAtISO, vedic |-> WeekdayOf(now)]

\* GET /daily?sign=q up to its first wait: validation, ensureNewDay, the cache
\* lookup of ensureDailyForToday and, without a key, the fallback text.  The
\* instant of a cache write is named by the request that makes it.
DailyGet2(r, q) ==
    LET sign == Lower(q)
        c0   == ensureNewDay(dailyCacheDate, dailyCache, today)
    IN  /\ reqs[r].pc = "new"
        /\ IF sign \notin SIGNS
           THEN /\ reqs' = [reqs EXCEPT ![r] = [pc |-> "done", sign |-> sign,
                                upstream |-> "none", resp |-> ErrorResp(400, InvalidSign)]]
                /\ UNCHANGED <<dailyCacheDate, dailyCache>>
           ELSE /\ dailyCacheDate' = today
                /\ IF c0[sign] # <<>>
                   THEN /\ dailyCache' = c0
                        /\ reqs' = [reqs EXCEPT ![r] = [pc |-> "done", sign |-> sign,
                                        upstream |-> "none",
                                        resp |-> DailyJson(today, sign, c0[sign][1], today)]]
                   ELSE IF ~apiKey
                   THEN LET e == [text |-> FallbackNoKey(sign), generatedAtISO |-> r]
                        IN  /\ dailyCache' = [c0 EXCEPT ![sign] = <<e>>]
                            /\ reqs' = [reqs EXCEPT ![r] = [pc |-> "done", sign |-> sign,
                                            upstream |-> "none",
                                            resp |-> DailyJson(today, sign, e, today)]]
                   ELSE /\ dailyCache' = c0
                        /\ reqs' = [reqs EXCEPT ![r] = [pc |-> "fetch", sign |-> sign,
                                        upstream |-> "called", resp |-> NoResp]]
        /\ UNCHANGED <<extVars, envVars, composeVars, day4Vars, fileVars, trVars, routeVars>>

\* the completion service answers request r: the rest of
\* generateDailyTextForDate, the cache write of ensureDailyForToday and the
\* response; a rejected fetch or r.json() reaches the catch of the handler
DailyReply2(r, reply) ==
    LET sign == reqs[r].sign
        text == IF reply.kind = "ok" THEN <<reply.text, sign>> ELSE FallbackError(sign)
        e    == [text |-> text, generatedAtISO |-> r]
    IN  /\ reqs[r].pc = "fetch"
        /\ IF reply.kind \in {"neterr", "badjson"}
           THEN /\ reqs' = [reqs EXCEPT ![r] = [pc |-> "done", sign |-> sign,
                                upstream |-> reply.kind,
                                resp |-> ErrorResp(500, ServerError)]]
                /\ UNCHANGED dailyCache
           ELSE /\ dailyCache' = [dailyCache EXCEPT ![sign] = <<e>>]
                /\ reqs' = [reqs EXCEPT ![r] = [pc |-> "done", sign |-> sign,
                                upstream |-> reply.kind,
                                resp |-> DailyJson(dailyCacheDate, sign, e, today)]]
        /\ UNCHANGED <<extVars, dailyCacheDate, envVars, composeVars, day4Vars, fileVars,
                       trVars, routeVars>>

\* the IST date changes
Midnight ==
    /\ today < MaxDay
    /\ today' = today + 1
    /\ UNCHANGED <<extVars, tzOffset, intlOk, apiKey, wall, composeVars, day2Vars, day4Vars,
                   fileVars, trVars, routeVars>>


\* ------------------------------------------------------------------------
\* src/unnamed/part_004: getDaily and its per-date caches, GET /daily and
\* GET /weekly.  A handler runs without interruption from one event (the
\* request, an answer of the completion service) to its next wait.
\* ------------------------------------------------------------------------
Langs4 == {"en", "hi"}
\* for (let i = 0; i < 7; i++) of GET /weekly
WeekDays == 7

EmptyEn == [s \in CacheSigns |-> <<>>]
EmptyLg == [s \in CacheSigns |-> <<>>]
NoLangs == [l \in Langs4 |-> <<>>]

NoText4 == [body |-> <<>>, tr |-> "", disc |-> ""]
NoResp4 == [status |-> 0, error |-> "", date |-> 0, text |-> NoText4,
            generatedAt |-> 0, days |-> <<>>]
NumJobs == 2
JobIds == 1..NumJobs
NewJob == [pc |-> "new", route |-> "", sign |-> "", lang |-> "", i |-> 0, date |-> 0,
           arg |-> NoText4, days |-> <<>>, upstream |-> FALSE, resp |-> NoResp4]

\* resetCache / ensureDate
resetCache(dateISO) == [date |-> dateISO, en |-> EmptyEn, lg |-> EmptyLg, reset |-> TRUE]
ensureDate(c, dateISO) == IF c.date # dateISO THEN resetCache(dateISO) ELSE c

\* ensureDisclaimer(text, lang): appended only when the text has none
ensureDisclaimer(text, lang) ==
    IF text.disc # "none" THEN text
    ELSE [text EXCEPT !.disc = IF lang = "hi" THEN "hi" ELSE "en"]

\* polishWithLLM: the base template without a key or when the call fails in
\* any way or returns no content
polishWithLLM(sign, dateISO, reply) ==
    LET base == [body |-> <<"base", sign, dateISO>>, tr |-> "en", disc |-> "none"]
    IN  IF apiKey /\ reply.kind = "ok" /\ reply.text # ""
        THEN [base EXCEPT !.body = <<reply.text, sign, dateISO>>]
        ELSE base

\* translateTextLLM(text, lang): the text itself for English, without a key
\* and on any failure
translateTextLLM(text, lang, reply) ==
    IF lang = "en" \/ ~apiKey THEN text
    ELSE IF reply.kind = "ok" /\ reply.text # ""
    THEN [text EXCEPT !.tr = reply.text, !.disc = "hi"]
    ELSE text

NoReply == [kind |-> "none", text |-> ""]
\* the answers explored for the calls of part_004: a text, or no answer
Replies4 == {[kind |-> "ok", text |-> "llm_a"], [kind |-> "neterr", text |-> ""]}

\* orchestrateDaily({sign, dateISO, dayIdx, lang: 'en'}).text
orchestrateDaily(sign, dateISO, reply) ==
    ensureDisclaimer(translateTextLLM(polishWithLLM(sign, dateISO, reply), "en", NoReply), "en")

\* a getDaily that regenerates the baseline on every call
EnMissAlways(c, sign) == TRUE

\* if (!enCache[sign])
EnMiss(c, sign) == c.en[sign] = <<>>

\* the catch of a route handler
Caught4(c, job) ==
    [c |-> c, job |-> [job EXCEPT !.pc = "done",
                           !.resp = [NoResp4 EXCEPT !.status = 500, !.error = ServerError]]]

RECURSIVE StartCall(_, _, _)

\* getDaily returns its node and the handler goes on: the response of
\* GET /daily, or the next day of GET /weekly
Deliver(c, job, j) ==
    IF c.en[job.sign] = <<>> THEN Caught4(c, job)
    ELSE LET en   == c.en[job.sign][1]
             text == IF job.lang = "en" THEN en.text
                     ELSE c.lg[job.sign][1][job.lang][1]
         IN  IF job.route = "daily"
             THEN [c |-> c,
                   job |-> [job EXCEPT !.pc = "done",
                               !.resp = [NoResp4 EXCEPT !.status = 200, !.date = job.date,
                                             !.text = text,
                                             !.generatedAt = en.generatedAtISO]]]
             ELSE LET days == Append(job.days, job.date)
                  IN  IF job.i + 1 < WeekDays
                      THEN StartCall(c, [job EXCEPT !.i = job.i + 1, !.days = days], j)
                      ELSE [c |-> c,
                            job |-> [job EXCEPT !.pc = "done", !.days = days,
                                        !.resp = [NoResp4 EXCEPT !.status = 200,
                                                                 !.days = days]]]

\* the translated variant of getDaily, from "if (!langCache[sign])" on
LangPart(c, job, j) ==
    LET lg1 == IF c.lg[job.sign] = <<>> THEN [c.lg EXCEPT ![job.sign] = <<NoLangs>>]
               ELSE c.lg
        c1  == [c EXCEPT !.lg = lg1]
        en  == c.en[job.sign][1].text
    IN  IF lg1[job.sign][1][job.lang] # <<>> THEN Deliver(c1, job, j)
        ELSE IF ~apiKey
        THEN LET safe == ensureDisclaimer(translateTextLLM(en, job.lang, NoReply), job.lang)
             IN  Deliver([c1 EXCEPT !.lg[job.sign] =
                              <<[lg1[job.sign][1] EXCEPT ![job.lang] = <<safe>>]>>], job, j)
        ELSE [c |-> c1, job |-> [job EXCEPT !.pc = "translate", !.arg = en,
                                     !.upstream = TRUE]]

\* enCache[sign] = { text, extras, generatedAtISO }; the instant of the write
\* is named by the request that makes it
WriteEn(c, job, j, text) ==
    [c EXCEPT !.en[job.sign] = <<[text |-> text, generatedAtISO |-> j]>>]

AfterBaseline(c, job, j) ==
    IF job.lang = "en" THEN Deliver(c, job, j) ELSE LangPart(c, job, j)

\* one getDaily(sign, istDateKey(addDaysIST(i)), ..., lang) from its start
StartCall(c, job, j) ==
    LET dateISO == today + job.i
        c1   == ensureDate(c, dateISO)
        job1 == [job EXCEPT !.date = dateISO]
    IN  IF EnMiss(c1, job.sign)
        THEN IF ~apiKey
             THEN AfterBaseline(
                      WriteEn(c1, job1, j, orchestrateDaily(job.sign, dateISO, NoReply)),
                      job1, j)
             ELSE [c |-> c1, job |-> [job1 EXCEPT !.pc = "polish",
                                           !.upstream = TRUE]]
        ELSE AfterBaseline(c1, job1, j)

CacheNow == [date |-> currentDateISO, en |-> enCache, lg |-> langCache, reset |-> FALSE]

\* the caches and the request after a stretch of the handler
Settle4(j, out) ==
    /\ currentDateISO' = out.c.date
    /\ enCache' = out.c.en
    /\ langCache' = out.c.lg
    /\ didReset' = out.c.reset
    /\ jobs' = [jobs EXCEPT ![j] = out.job]
    /\ UNCHANGED <<extVars, envVars, composeVars, day2Vars, fileVars, trVars, routeVars>>

\* GET /daily?sign=q&lang=l and GET /weekly?sign=q&lang=l
Request4(j, route, q, lang) ==
    LET sign == Lower(q)
        job  == [NewJob EXCEPT !.route = route, !.sign = sign, !.lang = lang]
    IN  /\ jobs[j].pc = "new"
        /\ IF sign \notin SIGNS
           THEN Settle4(j, [c |-> CacheNow,
                            job |-> [job EXCEPT !.pc = "done",
                                        !.resp = [NoResp4 EXCEPT !.status = 400,
                                                                 !.error = InvalidSign]]])
           ELSE Settle4(j, StartCall(CacheNow, job, j))

\* the completion service answers the polish call of request j
PolishReply4(j, reply) ==
    /\ jobs[j].pc = "polish"
    /\ Settle4(j, AfterBaseline(
                      WriteEn(CacheNow, jobs[j], j,
                              orchestrateDaily(jobs[j].sign, jobs[j].date, reply)),
                      [jobs[j] EXCEPT !.pc = "run"], j))

\* the completion service answers the translate call of request j;
\* langCache[sign][lang] = safe throws when langCache[sign] is gone
TranslateReply4(j, reply) ==
    LET job  == [jobs[j] EXCEPT !.pc = "run"]
        safe == ensureDisclaimer(translateTextLLM(job.arg, job.lang, reply), job.lang)
    IN  /\ jobs[j].pc = "translate"
        /\ IF langCache[job.sign] = <<>>
           THEN Settle4(j, Caught4(CacheNow, job))
           ELSE Settle4(j, Deliver([CacheNow EXCEPT !.lg[job.sign] =
                                       <<[langCache[job.sign][1] EXCEPT ![job.lang] = <<safe>>]>>],
                                   job, j))


\* ------------------------------------------------------------------------
\* src/server.js: the disk cache helpers cacheFilePath, loadCachedDaily and
\* saveCachedDaily over the memory map dailyCache and the per-date files
\* ------------------------------------------------------------------------
\* String(lang).toLowerCase().startsWith('hi') ? 'hi' : 'en'
StartsWithHi(lang) == lang \in {"hi", "hi-IN", "HI", "hinglish"}
NormLang(lang) == IF StartsWithHi(lang) THEN "hi" ELSE "en"

\* cacheKey(dateStr, sign, lang): the three parts joined by "|"
cacheKey(dateStr, sign, lang) == <<dateStr, sign, lang>>
\* cacheFilePath(dateStr, sign, lang): data/cache/daily/<date>/<sign>.<lang>.json
cacheFilePath(dateStr, sign, lang) ==
    <<"data/cache/daily", dateStr, Lower(sign), NormLang(lang), "json">>

\* the arguments explored
FileDates == {"2025-01-26", "2025-01-27"}
FileSigns == {"aries", "Aries"}
FileLangs == {"en", "hi", "hi-IN"}
Contents ==
    {[text |-> "t1", waterGlasses |-> 9, special |-> <<>>],
     [text |-> "t2", waterGlasses |-> 4, special |-> <<"Republic Day">>]}

CacheKeys == {cacheKey(d, Lower(s), NormLang(l)) :
                  d \in FileDates, s \in FileSigns, l \in FileLangs}
FilePaths == {cacheFilePath(d, s, l) : d \in FileDates, s \in FileSigns, l \in FileLangs}

\* JSON.stringify of an object given as its members <<name, value>> in
\* insertion order, a value being <<>> for undefined and <<v>> otherwise:
\* members without a value are left out.  The values written here (strings,
\* numbers, null, arrays and objects of these) print and parse back unchanged.
JsonStringify(members) ==
    LET kept == SelectSeq(members, LAMBDA m : m[2] # <<>>)
    IN  [i \in 1..Len(kept) |-> <<kept[i][1], kept[i][2][1]>>]
\* JSON.parse of such a text: the object, a later member replacing an earlier
\* one of the same name
JsonParse(text) ==
    [k \in {text[i][1] : i \in 1..Len(text)} |->
        text[CHOOSE i \in 1..Len(text) :
                 /\ text[i][1] = k
                 /\ \A n \in (i + 1)..Len(text) : text[n][1] # k][2]]

\* a loadCachedDaily that returns the whole parsed file
UnwrapWhole(parsed) == parsed

\* parsed.rich || parsed
Unwrap(parsed) == IF "rich" \in DOMAIN parsed THEN parsed["rich"] ELSE parsed

NoGet == [key |-> <<>>, tier |-> "", value |-> <<>>, expected |-> <<>>]

\* saveCachedDaily(dateStr, sign, lang, d)
saveCachedDaily(dateStr, sign0, lang0, d) ==
    LET sign == Lower(sign0)
        lang == NormLang(lang0)
        key  == cacheKey(dateStr, sign, lang)
        file == cacheFilePath(dateStr, sign, lang)
    IN  /\ files' = [files EXCEPT ![file] =
                        <<JsonStringify(<<<<"date", <<dateStr>>>>, <<"sign", <<sign>>>>,
                                          <<"lang", <<lang>>>>, <<"rich", <<d>>>>>>)>>]
        /\ dailyCacheMap' = [dailyCacheMap EXCEPT ![key] = <<d>>]
        /\ written' = [written EXCEPT ![key] = <<d>>]
        /\ UNCHANGED <<extVars, lastGet, envVars, composeVars, day2Vars, day4Vars, trVars,
                       routeVars>>

\* loadCachedDaily(dateStr, sign, lang); lastGet keeps what it returned and
\* what the latest save of that key had written
loadCachedDaily(dateStr, sign0, lang0) ==
    LET sign == Lower(sign0)
        lang == NormLang(lang0)
        key  == cacheKey(dateStr, sign, lang)
        file == cacheFilePath(dateStr, sign, lang)
        mem  == dailyCacheMap[key]
    IN  /\ IF mem # <<>>
           THEN /\ lastGet' = [key |-> key, tier |-> "memory", value |-> mem,
                               expected |-> written[key]]
                /\ UNCHANGED dailyCacheMap
           ELSE IF files[file] # <<>>
           THEN LET d == Unwrap(JsonParse(files[file][1]))
                IN  /\ dailyCacheMap' = [dailyCacheMap EXCEPT ![key] = <<d>>]
                    /\ lastGet' = [key |-> key, tier |-> "file", value |-> <<d>>,
                                   expected |-> written[key]]
           ELSE /\ lastGet' = [key |-> key, tier |-> "none", value |-> <<>>,
                               expected |-> written[key]]
                /\ UNCHANGED dailyCacheMap
        /\ UNCHANGED <<extVars, files, written, envVars, composeVars, day2Vars, day4Vars,
                       trVars, routeVars>>

\* the process restarts: a new, empty Map; the files stay
Restart ==
    /\ dailyCacheMap' = [k \in CacheKeys |-> <<>>]
    /\ UNCHANGED <<extVars, files, written, lastGet, envVars, composeVars, day2Vars, day4Vars,
                   trVars, routeVars>>


\* ------------------------------------------------------------------------
\* src/agents/translate.js: translateAgent (lines 18-61) and the cached
\* translateAgent (lines 108-179).  A text is the sequence of its phrases; a
\* phrase "dev:..." is written in Devanagari.
\* ------------------------------------------------------------------------
TextPool == {<<>>, <<"Namaste">>, <<"Rahu Kaal", "07:30">>, <<"dev:shubh din">>}

DevPhrases ==
    {"dev:shubh din", "dev:namaste", "dev:aaj anukool hai", "dev:sookshm kaushal",
     "dev:inbox saaf", "dev:jal pien", "dev:rahu kaal", "dev:yamagand",
     "dev:gulik kaal", "dev:abhijit muhurt"}

\* isEmpty(s), hasDevanagari(s)
isEmpty(text) == text = <<>>
hasDevanagari(text) == \E i \in 1..Len(text) : text[i] \in DevPhrases

\* what the completion service answers to a translation call; without a
\* valid key it never answers 200
TrReplies ==
    {[kind |-> "ok", out |-> <<"dev:namaste">>], [kind |-> "ok", out |-> <<>>],
     [kind |-> "badjson", out |-> <<>>], [kind |-> "status", out |-> <<>>],
     [kind |-> "neterr", out |-> <<>>]}
TrRepliesNow == IF apiKey THEN TrReplies ELSE {x \in TrReplies : x.kind \in {"status", "neterr"}}

\* translateAgent(text, to) of lines 18-61; reply is the answer to its call,
\* if it makes one
translatePlain(text, to, reply) ==
    IF isEmpty(text) \/ to # "hi" \/ hasDevanagari(text) \/ ~apiKey THEN text
    ELSE IF reply.kind # "ok" THEN text
    ELSE IF isEmpty(reply.out) THEN text ELSE reply.out

\* the "light cleanups" applied to the outcome of the cached translateAgent
CleanPhrase(w) ==
    CASE w = "Today favors"   -> "dev:aaj anukool hai"
      [] w = "micro-skill"    -> "dev:sookshm kaushal"
      [] w = "inbox trim"     -> "dev:inbox saaf"
      [] w = "hydrate"        -> "dev:jal pien"
      [] w = "Rahu Kaal"      -> "dev:rahu kaal"
      [] w = "Yamaganda"      -> "dev:yamagand"
      [] w = "Gulika Kaal"    -> "dev:gulik kaal"
      [] w = "Abhijit Muhurat" -> "dev:abhijit muhurt"
      [] OTHER                -> w
Cleanups(text) == [i \in 1..Len(text) |-> CleanPhrase(text[i])]

MAX_CACHE == 500
\* prune(): drops the oldest entry when the cache is over the limit
prune(c) == IF Len(c) <= MAX_CACHE THEN c ELSE Tail(c)

CacheHas(c, key) == \E i \in 1..Len(c) : c[i][1] = key
CacheGet(c, key) == c[CHOOSE i \in 1..Len(c) : c[i][1] = key][2]

\* !text.trim() || the text is only dashes, stars, bullets, dots and spaces
FastPath(text) == \A i \in 1..Len(text) : text[i] \in {"*", "-", "."}

\* the text the cached translateAgent gets from its call: the tidied content
\* of a 200, the original otherwise
Translated(text, reply) ==
    IF reply.kind = "ok" /\ reply.out # <<>> THEN reply.out ELSE text

\* how the call went: "none" when no call was made, "empty" for a 200 without
\* content
Upstream(reply) == IF reply.kind = "ok" /\ reply.out = <<>> THEN "empty" ELSE reply.kind

NoTr == [variant |-> "", text |-> <<>>, to |-> "", upstream |-> "", result |-> <<>>]

\* a call of translateAgent of lines 18-61
TranslateCall(text, to, reply) ==
    LET calls == ~(isEmpty(text) \/ to # "hi" \/ hasDevanagari(text) \/ ~apiKey)
    IN  /\ trOut' = [variant |-> "plain", text |-> text, to |-> to,
                     upstream |-> IF calls THEN Upstream(reply) ELSE "none",
                     result |-> translatePlain(text, to, reply)]
        /\ UNCHANGED <<extVars, cache, envVars, composeVars, day2Vars, day4Vars, fileVars,
                       routeVars>>

\* a call of the cached translateAgent with a string input
TranslateCachedCall(text, to, reply) ==
    LET key == <<"hi", text>>
    IN  /\ IF to # "hi"
           THEN /\ trOut' = [variant |-> "cached", text |-> text, to |-> to,
                             upstream |-> "none", result |-> text]
                /\ UNCHANGED cache
           ELSE IF CacheHas(cache, key)
           THEN /\ trOut' = [variant |-> "cached", text |-> text, to |-> to,
                             upstream |-> "none", result |-> CacheGet(cache, key)]
                /\ UNCHANGED cache
           ELSE IF FastPath(text)
           THEN /\ trOut' = [variant |-> "cached", text |-> text, to |-> to,
                             upstream |-> "none", result |-> text]
                /\ cache' = Append(cache, <<key, text>>)
           ELSE LET translated == Cleanups(Translated(text, reply))
                IN  /\ trOut' = [variant |-> "cached", text |-> text, to |-> to,
                                 upstream |-> Upstream(reply),
                                 result |-> translated]
                    /\ cache' = prune(Append(cache, <<key, translated>>))
        /\ UNCHANGED <<extVars, envVars, composeVars, day2Vars, day4Vars, fileVars, routeVars>>


\* ------------------------------------------------------------------------
\* Route handlers: GET /daily, POST /daily and POST /report/from-daily of
\* src/server.js, POST /report/generate of src/unnamed/part_003 and part_004,
\* POST /chat of part_004.  The requests explored ask for English, so that
\* composeDaily makes no translation call.
\* ------------------------------------------------------------------------
\* the wall clock: 26 Jan 2025 at 05:30 and at 19:30 IST
Timeline == <<36000, 36840>>
NowF == Timeline[wall]

\* the sign of a request: a string, no sign at all, or a JSON number
Missing == "<missing>"
ANumber == "<number>"
QuerySignsF == {"leo", "dragon", Missing}
BodySignsF == {"leo", "dragon", Missing, ANumber}

\* e.message of the TypeError of (sign || '').toLowerCase() in composeDaily
NotAFunction == "(sign || '').toLowerCase is not a function"
KeyNotSet == "OPENAI_API_KEY not set"
\* what the framework does with a rejected async handler: Express 4 leaves
\* the request without a response, Express 5 answers with its own error page
Frameworks == {"express4", "express5"}

NoServed ==
    [route |-> "", sign |-> "", status |-> 0, error |-> "", date |-> <<>>,
     text |-> <<>>, compose |-> 0, upstream |-> 0, threw |-> FALSE, responses |-> 0,
     at |-> 0]

Serve(rec) ==
    /\ served' = <<served[2], [rec EXCEPT !.at = wall]>>
    /\ UNCHANGED <<extVars, envVars, composeVars, day2Vars, day4Vars, fileVars, trVars>>

\* res.json({date, sign, lang, text, vedic, generatedAt, rich}) after
\* composeDaily({sign, lang})
Composed200(route, given, sign) ==
    LET data == composeDaily(sign, "en", NowF, NoUser, NowF, tzOffset, intlOk)
    IN  [NoServed EXCEPT !.route = route, !.sign = given, !.status = 200,
                         !.date = data.date, !.text = data.text, !.compose = 1,
                         !.responses = 1]

\* GET /daily of src/server.js
GetDaily(q) ==
    Serve(Composed200("GET /daily", q, IF q = Missing THEN "aries" ELSE Lower(q)))

\* POST /daily of src/server.js: no try/catch around composeDaily
PostDaily(b, framework) ==
    LET sign == IF b = Missing THEN "aries" ELSE b
        rejected == [NoServed EXCEPT !.route = "POST /daily", !.sign = b, !.compose = 1,
                                     !.threw = TRUE]
    IN  IF sign = ANumber
        THEN IF framework = "express4" THEN Serve(rejected)
             ELSE Serve([rejected EXCEPT !.status = 500, !.error = "<error page>",
                                         !.responses = 1])
        ELSE Serve(Composed200("POST /daily", b, Lower(sign)))

\* POST /report/from-daily of src/server.js up to the PDF headers; its catch
\* answers with e.message
ReportFromDaily(b) ==
    LET sign == IF b = Missing THEN "aries" ELSE b
    IN  IF sign = ANumber
        THEN Serve([NoServed EXCEPT !.route = "POST /report/from-daily", !.sign = b,
                                    !.compose = 1, !.threw = TRUE, !.status = 500,
                                    !.error = NotAFunction, !.responses = 1])
        ELSE Serve(Composed200("POST /report/from-daily", b, Lower(sign)))

\* POST /report/generate of src/unnamed/part_003
ReportGenerate3(reply) ==
    LET rec == [NoServed EXCEPT !.route = "part_003 POST /report/generate",
                                !.responses = 1]
    IN  IF ~apiKey THEN Serve([rec EXCEPT !.status = 500, !.error = KeyNotSet])
        ELSE IF reply.kind \in {"neterr", "badjson"}
        THEN Serve([rec EXCEPT !.status = 500, !.error = ServerError, !.upstream = 1,
                               !.threw = TRUE])
        ELSE IF reply.kind = "status"
        THEN Serve([rec EXCEPT !.status = 503, !.error = "<upstream error text>",
                               !.upstream = 1])
        ELSE Serve([rec EXCEPT !.status = 200, !.text = <<"report", reply.text>>,
                               !.upstream = 1])

\* POST /report/generate of src/unnamed/part_004, lang "en"
ReportGenerate4(reply) ==
    LET rec == [NoServed EXCEPT !.route = "part_004 POST /report/generate",
                                !.responses = 1]
        offline == <<"report", "(Offline mode)">>
    IN  IF ~apiKey THEN Serve([rec EXCEPT !.status = 200, !.text = offline])
        ELSE IF reply.kind \in {"neterr", "badjson"}
        THEN Serve([rec EXCEPT !.status = 500, !.error = ServerError, !.upstream = 1,
                               !.threw = TRUE])
        ELSE IF reply.kind = "status" \/ reply.text = ""
        THEN Serve([rec EXCEPT !.status = 200, !.text = offline, !.upstream = 1])
        ELSE Serve([rec EXCEPT !.status = 200, !.text = <<"report", reply.text>>,
                               !.upstream = 1])

\* POST /chat of src/unnamed/part_004
Chat4(reply) ==
    LET rec == [NoServed EXCEPT !.route = "POST /chat", !.responses = 1]
    IN  IF ~apiKey THEN Serve([rec EXCEPT !.status = 500, !.error = KeyNotSet])
        ELSE IF reply.kind \in {"neterr", "badjson"}
        THEN Serve([rec EXCEPT !.status = 500, !.error = ServerError, !.upstream = 1,
                               !.threw = TRUE])
        ELSE IF reply.kind = "status"
        THEN Serve([rec EXCEPT !.status = 503, !.error = "<upstream error text>",
                               !.upstream = 1])
        ELSE Serve([rec EXCEPT !.status = 200, !.text = <<"chat", reply.text>>,
                               !.upstream = 1])

\* time passes
Tick ==
    /\ wall < Len(Timeline)
    /\ wall' = wall + 1
    /\ UNCHANGED <<extVars, tzOffset, intlOk, apiKey, today, composeVars, day2Vars, day4Vars,
                   fileVars, trVars, routeVars>>

\* ------------------------------------------------------------------------
\* POST /chat/stream: the SSE bridge of src/unnamed/part_001, which forwards
\* the upstream event stream, and the local drip of src/unnamed/part_002,
\* which makes a buffered call and writes its text in slices.  The upstream
\* bytes are a sequence of symbols: "data:", a payload, "NL" for a line feed.
\* ------------------------------------------------------------------------
CHARS == 18
\* the most symbols one network chunk carries
MaxChunk == 5

\* one upstream event: data: <p>\n\n
Ev(p) == <<"data:", p, "NL", "NL">>
RECURSIVE Wire(_)
Wire(events) ==
    IF events = <<>> THEN <<>> ELSE Ev(Head(events)) \o Wire(Tail(events))

\* the bodies explored for the streaming call: events that end with [DONE],
\* that end at a clean end of stream, or whose last event is cut short; and
\* an event with a second field line
EventLists == {<<>>, <<"a">>, <<"a", "b">>}
StreamPlans ==
    {[events |-> es, term |-> "done", wire |-> Wire(es) \o Ev("[DONE]")] :
         es \in EventLists}
    \cup {[events |-> es, term |-> "eof", wire |-> Wire(es)] : es \in EventLists}
    \cup {[events |-> <<"a", "b">>, term |-> "cut",
           wire |-> Wire(<<"a">>) \o <<"data:", "b">>]}
    \cup {[events |-> <<"a">>, term |-> "done",
           wire |-> <<"event:", "x", "NL">> \o Ev("a") \o Ev("[DONE]")]}
NoPlan == [events |-> <<>>, term |-> "", wire |-> <<>>]

\* the texts explored for the buffered call, by length; the characters of a
\* text are numbered so that each is distinct
FullLengths == {0, 5, 18, 19, 37}
FullText(n) == [k \in 1..n |-> k]

\* the answers of the upstream call: a body, a non-2xx status, a rejection,
\* a body that is not JSON
SseReplies == {"ok", "status", "neterr", "badjson"}

\* what res.write puts on the response
Comment == [kind |-> "comment", piece |-> <<>>]
DataLine(piece) == [kind |-> "data", piece |-> piece]
Done == DataLine(<<"[DONE]">>)
ErrorEvent(msg) == [kind |-> "error", piece |-> <<msg>>]
\* sendChunk(piece)
sendChunk(piece) == [kind |-> "chunk", piece |-> piece]
NoContent == <<0>>

NoSse ==
    [variant |-> "", pc |-> "idle", plan |-> NoPlan, full |-> <<>>,
     rest |-> <<>>, buffer |-> <<>>, i |-> 0, out |-> <<>>, ended |-> FALSE,
     closed |-> FALSE, aborted |-> FALSE, upActive |-> FALSE, late |-> FALSE,
     reply |-> ""]

\* res.write of each of ws, in order
Emit(s, ws) ==
    [s EXCEPT !.out = s.out \o ws, !.late = s.late \/ (s.closed /\ ws # <<>>)]
\* res.end(), the handler returns
End(s) == [s EXCEPT !.ended = TRUE, !.pc = "done", !.upActive = FALSE]

\* buffer.indexOf('\n\n'), 0 for -1
SepIndex(buffer) ==
    LET at == {i \in 1..(Len(buffer) - 1) : buffer[i] = "NL" /\ buffer[i + 1] = "NL"}
    IN  IF at = {} THEN 0 ELSE CHOOSE i \in at : \A j \in at : i <= j

\* event.split('\n')
RECURSIVE SplitLines(_)
SplitLines(ev) ==
    LET at == {i \in 1..Len(ev) : ev[i] = "NL"}
    IN  IF at = {} THEN <<ev>>
        ELSE LET i == CHOOSE i \in at : \A j \in at : i <= j
             IN  <<SubSeq(ev, 1, i - 1)>> \o SplitLines(SubSeq(ev, i + 1, Len(ev)))

\* the loop over the lines of one event: a data line is written again; after
\* [DONE] the response is ended and the handler returns
RECURSIVE ForwardLines(_, _)
ForwardLines(lines, s) ==
    IF lines = <<>> THEN s
    ELSE LET line == Head(lines)
         IN  IF line = <<>> THEN ForwardLines(Tail(lines), s)
             ELSE IF line[1] = "data:"
             THEN LET dataPart == Tail(line)
                      w == Emit(s, <<DataLine(dataPart)>>)
                  IN  IF dataPart = <<"[DONE]">> THEN End(w)
                      ELSE ForwardLines(Tail(lines), w)
             ELSE ForwardLines(Tail(lines), s)

\* while ((sepIndex = buffer.indexOf('\n\n')) !== -1) { ... }
RECURSIVE Drain(_)
Drain(s) ==
    LET sepIndex == SepIndex(s.buffer)
    IN  IF sepIndex = 0 \/ s.ended THEN s
        ELSE LET event == SubSeq(s.buffer, 1, sepIndex - 1)
                 cut == [s EXCEPT !.buffer = SubSeq(s.buffer, sepIndex + 2, Len(s.buffer))]
             IN  Drain(ForwardLines(SplitLines(event), cut))

\* buffer.trim(): line feeds at both ends removed
RECURSIVE Trim(_)
Trim(b) ==
    IF b = <<>> THEN b
    ELSE IF Head(b) = "NL" THEN Trim(Tail(b))
    ELSE IF b[Len(b)] = "NL" THEN Trim(SubSeq(b, 1, Len(b) - 1))
    ELSE b

\* a slice that runs to the end of the text
SliceToEnd(full, i) == SubSeq(full, i + 1, Len(full))

\* full.slice(i, i + CHARS)
Slice(full, i) == SubSeq(full, i + 1, Min(i + CHARS, Len(full)))

\* the request arrives: without a key both handlers answer with one error
\* event; the bridge writes its heartbeat, registers the close listener and
\* calls fetch with the abort signal; the drip calls fetch
StreamStart(variant, plan, n) ==
    /\ sse.pc = "idle"
    /\ LET s == [NoSse EXCEPT !.variant = variant]
       IN  sse' = IF ~apiKey THEN End(Emit(s, <<ErrorEvent(KeyNotSet)>>))
                  ELSE IF variant = "bridge"
                  THEN [Emit(s, <<Comment>>) EXCEPT !.pc = "fetch", !.plan = plan,
                                                    !.upActive = TRUE]
                  ELSE [s EXCEPT !.pc = "fetch", !.full = FullText(n),
                                 !.upActive = TRUE]
    /\ UNCHANGED <<envVars, composeVars, day2Vars, day4Vars, fileVars, trVars,
                   routeVars, pdf, probe, rep, pw>>

\* the catch of the bridge when the signal is not aborted, and of the drip
Caught(s) == End(Emit(s, <<ErrorEvent(ServerError)>>))

\* fetch settles in the bridge
BridgeReply(reply) ==
    /\ sse.variant = "bridge" /\ sse.pc = "fetch" /\ ~sse.aborted
    /\ reply \in {"ok", "status", "neterr"}
    /\ LET s == [sse EXCEPT !.reply = reply]
       IN  sse' = CASE reply = "neterr" -> Caught(s)
                    [] reply = "status" -> End(Emit(s, <<ErrorEvent("status")>>))
                    [] OTHER -> [s EXCEPT !.pc = "body", !.rest = s.plan.wire]
    /\ UNCHANGED <<envVars, composeVars, day2Vars, day4Vars, fileVars, trVars,
                   routeVars, pdf, probe, rep, pw>>

\* for await (const chunk of r.body): the next k symbols arrive
BodyChunk(k) ==
    /\ sse.variant = "bridge" /\ sse.pc = "body" /\ ~sse.aborted
    /\ k \in 1..Len(sse.rest)
    /\ sse' = Drain([sse EXCEPT !.buffer = sse.buffer \o SubSeq(sse.rest, 1, k),
                                !.rest = SubSeq(sse.rest, k + 1, Len(sse.rest))])
    /\ UNCHANGED <<envVars, composeVars, day2Vars, day4Vars, fileVars, trVars,
                   routeVars, pdf, probe, rep, pw>>

\* the body ends: what is left in the buffer is written, then [DONE]
BodyEnd ==
    /\ sse.variant = "bridge" /\ sse.pc = "body" /\ ~sse.aborted
    /\ sse.rest = <<>>
    /\ LET left == Trim(sse.buffer)
           s == IF left # <<>> THEN Emit(sse, <<DataLine(left)>>) ELSE sse
       IN  sse' = End(Emit(s, <<Done>>))
    /\ UNCHANGED <<envVars, composeVars, day2Vars, day4Vars, fileVars, trVars,
                   routeVars, pdf, probe, rep, pw>>

\* the body stream fails (connection reset): the loop throws
BodyError ==
    /\ sse.variant = "bridge" /\ sse.pc = "body" /\ ~sse.aborted
    /\ sse.rest # <<>>
    /\ sse' = Caught([sse EXCEPT !.reply = "neterr"])
    /\ UNCHANGED <<envVars, composeVars, day2Vars, day4Vars, fileVars, trVars,
                   routeVars, pdf, probe, rep, pw>>

\* fetch settles in the drip: headers and heartbeat, then an error event, or
\* the first slice and the first delay
DripReply(reply) ==
    /\ sse.variant = "drip" /\ sse.pc = "fetch"
    /\ reply \in SseReplies
    /\ LET s == [sse EXCEPT !.reply = reply, !.upActive = FALSE]
           h == Emit(s, <<Comment>>)
       IN  sse' = CASE reply = "neterr" -> Caught(s)
                    [] reply = "status" -> End(Emit(h, <<ErrorEvent("status")>>))
                    [] reply = "badjson" -> Caught(h)
                    [] OTHER ->
                         IF s.full = <<>>
                         THEN End(Emit(h, <<sendChunk(NoContent), Done>>))
                         ELSE [Emit(h, <<sendChunk(Slice(s.full, 0))>>)
                                  EXCEPT !.pc = "drip", !.i = CHARS]
    /\ UNCHANGED <<envVars, composeVars, day2Vars, day4Vars, fileVars, trVars,
                   routeVars, pdf, probe, rep, pw>>

\* the delay of the drip loop runs out: the next slice, or [DONE] and the end
DripTick ==
    /\ sse.variant = "drip" /\ sse.pc = "drip"
    /\ sse' = IF sse.i < Len(sse.full)
              THEN [Emit(sse, <<sendChunk(Slice(sse.full, sse.i))>>)
                       EXCEPT !.i = sse.i + CHARS]
              ELSE End(Emit(sse, <<Done>>))
    /\ UNCHANGED <<envVars, composeVars, day2Vars, day4Vars, fileVars, trVars,
                   routeVars, pdf, probe, rep, pw>>

\* the request emits 'close': the listener of the bridge aborts the upstream
\* call; the drip has no listener
Close ==
    /\ sse.pc \in {"fetch", "body", "drip"}
    /\ ~sse.closed
    /\ sse' = IF sse.variant = "bridge"
              THEN [sse EXCEPT !.closed = TRUE, !.aborted = TRUE, !.upActive = FALSE]
              ELSE [sse EXCEPT !.closed = TRUE]
    /\ UNCHANGED <<envVars, composeVars, day2Vars, day4Vars, fileVars, trVars,
                   routeVars, pdf, probe, rep, pw>>

\* the aborted fetch or body read rejects: if (ac.signal.aborted) return res.end()
AbortCaught ==
    /\ sse.variant = "bridge" /\ sse.aborted /\ sse.pc \in {"fetch", "body"}
    /\ sse' = End(sse)
    /\ UNCHANGED <<envVars, composeVars, day2Vars, day4Vars, fileVars, trVars,
                   routeVars, pdf, probe, rep, pw>>

\* ------------------------------------------------------------------------
\* The optional logo of the PDF reports: POST /report/from-daily of
\* src/unnamed/part_002 and part_004, POST /report/generate of part_003, and
\* addBrandHeader of src/server.js.  A step of a handler either returns a
\* value or throws.
\* ------------------------------------------------------------------------
\* brand.logoBase64 as sent: absent, the bytes of an image, or a string that
\* decodes to bytes that are no image
LogoB64s == {"none", "image", "garbage"}
\* brand.logoUrl as sent, by what fetching it gives: absent, 200 with an
\* image, 200 with other bytes, a non-2xx answer, a rejected fetch
LogoUrls == {"none", "image", "garbage", "status", "unreachable"}
\* logo.png or app_icon.png beside server.js
DiskLogos == {"none", "image", "garbage"}
PdfVariants == {"part_002", "part_003", "part_004", "server"}

\* the outcome of a step: the buffer it leaves ("" for null), whether the
\* logo is on the page, whether it threw
Step(buf, drawn, threw) == [buf |-> buf, drawn |-> drawn, threw |-> threw]

\* a try block whose catch is empty, and the same block without its catch
Uncaught(r) == r
TryCatch(r) == [r EXCEPT !.threw = FALSE]

\* Buffer.from(logoBase64, 'base64') never throws for a string
Decode(b64) == Step(b64, FALSE, FALSE)
\* fetch(logoUrl), imgResp.ok, Buffer.from(await imgResp.arrayBuffer())
FetchLogo(url) ==
    CASE url = "unreachable" -> Step("", FALSE, TRUE)
      [] url = "status" -> Step("", FALSE, FALSE)
      [] OTHER -> Step(url, FALSE, FALSE)
\* doc.image(buf, ...) throws for bytes that are no image
Image(r) ==
    IF r.threw \/ r.buf = "" THEN r
    ELSE IF r.buf = "image" THEN Step(r.buf, TRUE, FALSE)
    ELSE Step(r.buf, FALSE, TRUE)
\* if (logoBase64) ... else if (logoUrl) ...
LoadLogo(b64, url) ==
    IF b64 # "none" THEN Decode(b64)
    ELSE IF url # "none" THEN FetchLogo(url)
    ELSE Step("", FALSE, FALSE)

\* ensureBrandWithLogo(brand): the logo sent, else the one on disk
ensureBrandWithLogo(b64, disk) == IF b64 # "none" THEN b64 ELSE disk

\* the logo step of each handler
LogoStep(variant, b64, url, disk) ==
    CASE variant \in {"part_002", "part_003"} ->
             IF b64 # "none" \/ url # "none"
             THEN TryCatch(Image(LoadLogo(b64, url)))
             ELSE Step("", FALSE, FALSE)
      [] variant = "part_004" ->
             LET loaded == TryCatch(LoadLogo(b64, url))
             IN  IF loaded.buf # "" THEN TryCatch(Image(loaded)) ELSE loaded
      [] OTHER ->
             LET brand == ensureBrandWithLogo(b64, disk)
             IN  IF brand # "none" THEN TryCatch(Image(Decode(brand)))
                 ELSE Step("", FALSE, FALSE)

NoPdf ==
    [variant |-> "", b64 |-> "none", url |-> "none", disk |-> "none",
     drawn |-> FALSE, sections |-> FALSE, ended |-> FALSE, status |-> 0,
     error |-> ""]

\* a report request from the PDF headers on: the logo step, the sections of
\* the report, doc.end(); an exception that leaves the logo step reaches the
\* catch of the handler
ReportPdf(variant, b64, url, disk) ==
    /\ LET logo == LogoStep(variant, b64, url, disk)
           rec == [NoPdf EXCEPT !.variant = variant, !.b64 = b64, !.url = url,
                                !.disk = disk]
       IN  pdf' = <<pdf[2],
                    IF logo.threw
                    THEN [rec EXCEPT !.status = 500, !.error = ServerError]
                    ELSE [rec EXCEPT !.drawn = logo.drawn, !.sections = TRUE,
                                     !.ended = TRUE, !.status = 200]>>
    /\ UNCHANGED <<envVars, composeVars, day2Vars, day4Vars, fileVars, trVars,
                   routeVars, sse, probe, rep, pw>>

\* ------------------------------------------------------------------------
\* Calls of the helpers and agents on their own: pickN, toISTParts,
\* fortuneLineAgent, specialDayAgent, and the Vedic windows of a daily
\* response and of the weekly report.  probe is the call made: one call
\* from each start.
\* ------------------------------------------------------------------------
\* pools of 0..MaxPool elements, n in 0..MaxCount
MaxPool == 10
MaxCount == 6
\* seeds explored: the ends of [0, 2^32), 2^31, the FNV basis, small values
\* and hashes of sign-and-date keys
ProbeSeeds ==
    {<<0, 0>>, <<0, 1>>, <<0, 2>>, <<0, 7>>, <<Limb - 1, Limb - 1>>,
     <<Limb - 1, Limb - 2>>, <<32768, 0>>, FnvBasis, LcgInc, LcgMul}
    \cup {SeedOf(s, <<2025, 1, 26>>) : s \in {"leo", "dragon", "pisces"}}

\* instants explored: 00:00, 14:00, 18:30 and 20:00 UTC of 1, 26, 27 and
\* 31 January, 28 February, 15 August and 25 December 2025
ProbeDays == {0, 25, 26, 30, 58, 226, 358}
ProbeMinutes == {0, 840, 1110, 1200}
ProbeInstants == {(d * MinutesPerDay) + m : d \in ProbeDays, m \in ProbeMinutes}
ProbeSigns == {"aries", "leo", "pisces", "dragon", "empty"}
ProbeUsers ==
    Users \cup {[name |-> "", dob |-> <<Pad2(1), Pad2(27)>>],
                [name |-> "Ravi", dob |-> <<Pad2(3), Pad2(1)>>]}
\* the weekly report starts in the week of 26 January
WeeklyStarts == {(25 * MinutesPerDay) + m : m \in ProbeMinutes}

NoProbe == [op |-> ""]

Others == <<envVars, composeVars, day2Vars, day4Vars, fileVars, trVars,
            routeVars, sse, pdf, rep, pw>>

\* pickN(arr, n, seed) on a pool of len elements
PickNCall(len, n, seed) ==
    /\ probe = NoProbe
    /\ probe' = [op |-> "pickN", len |-> len, n |-> n, seed |-> seed,
                 out |-> pickN(len, n, seed)]
    /\ UNCHANGED Others

\* toISTParts(d) with and without a working Intl.DateTimeFormat
IstPartsCall(t) ==
    /\ probe = NoProbe
    /\ probe' = [op |-> "toISTParts", now |-> t,
                 viaIntl |-> toISTParts(t, tzOffset, TRUE),
                 viaFallback |-> toISTParts(t, tzOffset, FALSE)]
    /\ UNCHANGED Others

\* fortuneLineAgent({sign, ist, seed, lang}) as composeDaily calls it
FortuneCall(sign, now, lang) ==
    /\ probe = NoProbe
    /\ LET p == toISTParts(now, tzOffset, intlOk)
       IN  probe' = [op |-> "fortune", sign |-> sign, now |-> now,
                     out |-> fortuneLineAgent(sign, p.ist, SeedOf(sign, p.dateStr),
                                              lang, tzOffset)]
    /\ UNCHANGED Others

\* specialDayAgent({now, lang, user})
SpecialCall(now, lang, user) ==
    /\ probe = NoProbe
    /\ probe' = [op |-> "special", now |-> now, user |-> user,
                 out |-> specialDayAgent(now, lang, user, tzOffset, intlOk)]
    /\ UNCHANGED Others

\* getVedicTimingsForTodayIST() of src/unnamed/part_004
getVedicTimingsForTodayIST ==
    [rahuKaal |-> "12:00-13:30", yamaganda |-> "07:30-09:00",
     gulikaKaal |-> "10:30-12:00", abhijitMuhurat |-> "12:05-12:52"]

\* the vedic field of a daily response made at instant now: composeDaily of
\* src/server.js, the daily route of src/unnamed/part_004
DailyVedic(variant, now) ==
    /\ probe = NoProbe
    /\ probe' = [op |-> "dailyVedic", variant |-> variant, now |-> now,
                 vedic |-> IF variant = "server" THEN panchangAgent(now)
                           ELSE getVedicTimingsForTodayIST]
    /\ UNCHANGED Others

\* the 7-day loop of POST /report/weekly: ts of day i, a local day after the
\* one before, and the windows of ts.getDay(), a local getter
WeeklyVedic(start) ==
    /\ probe = NoProbe
    /\ probe' = [op |-> "weeklyVedic", start |-> start,
                 rows |-> [i \in 1..WeekDays |->
                              LET ts == start + ((i - 1) * MinutesPerDay)
                              IN  [ts |-> ts,
                                   timings |-> approxVedicSlots12h(
                                       Civil(LocalClock(ts, tzOffset)).wd)]]]
    /\ UNCHANGED Others

\* ------------------------------------------------------------------------
\* Gemstone plans (src/server.js)
\* ------------------------------------------------------------------------
\* rulerForSign(sign): the ruling planet, 'sun' for an unknown sign
rulerForSign(sign) ==
    LET s == Lower(sign)
    IN  CASE s \in {"aries", "scorpio"} -> "mars"
          [] s \in {"taurus", "libra"} -> "venus"
          [] s \in {"gemini", "virgo"} -> "mercury"
          [] s = "cancer" -> "moon"
          [] s = "leo" -> "sun"
          [] s \in {"sagittarius", "pisces"} -> "jupiter"
          [] s \in {"capricorn", "aquarius"} -> "saturn"
          [] OTHER -> "sun"

\* the plan table of gemPlanForSign; note is <<>> where the plan has none
GemPlans ==
    [mars |-> [primary |-> "Red Coral (Moonga)", alt |-> "Carnelian",
               tone |-> "discipline, courage, decisive action", note |-> <<>>],
     venus |-> [primary |-> "Diamond / White Sapphire (caution: chart-specific)",
                alt |-> "Opal / Zircon",
                tone |-> "harmony, relationships, aesthetics", note |-> <<>>],
     mercury |-> [primary |-> "Emerald (Panna)", alt |-> "Peridot",
                  tone |-> "clarity, learning, communication", note |-> <<>>],
     moon |-> [primary |-> "Pearl (Moti)", alt |-> "Moonstone",
               tone |-> "emotional balance, calm, nourishment", note |-> <<>>],
     sun |-> [primary |-> "Ruby (Manik)", alt |-> "Garnet",
              tone |-> "confidence, leadership, vitality", note |-> <<>>],
     jupiter |-> [primary |-> "Yellow Sapphire (Pukhraj)", alt |-> "Citrine",
                  tone |-> "wisdom, growth, blessings", note |-> <<>>],
     saturn |-> [primary |-> "Blue Sapphire (Neelam - test first)", alt |-> "Amethyst",
                 tone |-> "steadiness, structure, patience", note |-> <<>>]]

\* gemPlanForSign(sign): the ruler's plan; for aries the same plan with a note
gemPlanForSign(sign) ==
    LET plan == GemPlans[rulerForSign(sign)]
    IN  IF Lower(sign) = "aries"
        THEN [plan EXCEPT !.note =
                 <<"For Aries, avoid Venus stones by default unless a full chart approves.">>]
        ELSE plan

GemCall(sign) ==
    /\ probe = NoProbe
    /\ probe' = [op |-> "gem", sign |-> sign, plan |-> gemPlanForSign(sign)]
    /\ UNCHANGED Others

\* ------------------------------------------------------------------------
\* POST /report/weekly: the date each of the 7 sections was composed for
\* ------------------------------------------------------------------------
\* src/server.js: composeDaily({now: ts}) with ts a local day after the one
\* before; src/unnamed/part_002: generateDailyTextForDate(s,
\* istDateKey(addDaysIST(i))); src/unnamed/part_004: seven fetches of
\* /daily?sign=..&lang=.., each answered with the daily of today
WeeklySections(variant, start, tz, intl) ==
    [i \in 1..WeekDays |->
        LET ts == start + ((i - 1) * MinutesPerDay)
        IN  [day |-> i,
             date |-> CASE variant = "server" -> toISTParts(ts, tz, intl).dateStr
                        [] variant = "part_002" -> IstDate(ts)
                        [] OTHER -> IstDate(start)]]

WeeklyReport(variant, start) ==
    /\ probe = NoProbe
    /\ probe' = [op |-> "weekly", variant |-> variant, start |-> start,
                 sections |-> WeeklySections(variant, start, tzOffset, intlOk)]
    /\ UNCHANGED Others

\* ------------------------------------------------------------------------
\* A PDF report route from doc.pipe(res) on: POST /report/from-daily of
\* src/unnamed/part_002 and of src/server.js, POST /report/weekly of
\* src/server.js.  A stretch of the handler runs from one event to its next
\* await; a statement of the stretch may throw.  The bytes the document has
\* buffered flow to the response, and with them the headers, as soon as the
\* handler yields.
\* ------------------------------------------------------------------------
RepVariants == {"part_002", "server_daily", "server_weekly"}

NoRep == [variant |-> "", pc |-> "idle", b64 |-> "none", url |-> "none", day |-> 0,
          headersSent |-> FALSE, docEnded |-> FALSE, ended |-> FALSE,
          status |-> 0, threw |-> FALSE]

\* doc.end(): the document is finished and the pipe ends the response
DocEnd(r) == [r EXCEPT !.pc = "done", !.docEnded = TRUE, !.ended = TRUE,
                       !.headersSent = TRUE, !.status = 200]

\* if (!res.headersSent) res.status(500).json({ error })
ErrorUnlessSent(r) ==
    IF r.headersSent THEN r
    ELSE [r EXCEPT !.status = 500, !.ended = TRUE, !.headersSent = TRUE]

\* the catch of each handler; POST /report/weekly calls doc.end() first
RepCatch(r) ==
    LET c == [r EXCEPT !.pc = "caught", !.threw = TRUE]
    IN  IF r.variant = "server_weekly"
        THEN ErrorUnlessSent([c EXCEPT !.docEnded = TRUE, !.ended = TRUE,
                                       !.headersSent = TRUE, !.status = 200])
        ELSE ErrorUnlessSent(c)

\* the handler yields at an await
Yield(r, pc) == [r EXCEPT !.pc = pc, !.headersSent = TRUE]

\* the request arrives and the handler runs to its first await after
\* doc.pipe(res), or to doc.end()
RepStart(variant, b64, url, throws) ==
    LET r == [NoRep EXCEPT !.variant = variant, !.b64 = b64, !.url = url,
                           !.pc = "piped"]
    IN  /\ rep.pc = "idle"
        /\ rep' = IF throws THEN RepCatch(r)
                  ELSE IF variant = "part_002" /\ b64 = "none" /\ url # "none"
                  THEN Yield(r, "logo")
                  ELSE IF variant = "server_weekly" THEN Yield(r, "week")
                  ELSE DocEnd(r)
        /\ UNCHANGED <<envVars, composeVars, day2Vars, day4Vars, fileVars, trVars,
                       routeVars, sse, pdf, probe, pw>>

\* fetch(logoUrl) settles (a rejection or a bad image is caught by the logo
\* block) and the handler writes the rest of the report
RepLogoDone(throws) ==
    /\ rep.pc = "logo"
    /\ rep' = IF throws THEN RepCatch(rep) ELSE DocEnd(rep)
    /\ UNCHANGED <<envVars, composeVars, day2Vars, day4Vars, fileVars, trVars,
                   routeVars, sse, pdf, probe, pw>>

\* composeDaily of day i settles (its own failure is caught in the loop) and
\* the handler writes the section; after the 7th, the closing and doc.end()
RepDay(throws) ==
    /\ rep.pc = "week"
    /\ rep' = IF throws THEN RepCatch(rep)
              ELSE IF rep.day + 1 < WeekDays
              THEN [rep EXCEPT !.day = rep.day + 1]
              ELSE DocEnd([rep EXCEPT !.day = rep.day + 1])
    /\ UNCHANGED <<envVars, composeVars, day2Vars, day4Vars, fileVars, trVars,
                   routeVars, sse, pdf, probe, pw>>

RepLogoSettles == \E throws \in BOOLEAN : RepLogoDone(throws)
RepDaySettles == \E throws \in BOOLEAN : RepDay(throws)

\* ------------------------------------------------------------------------
\* src/server.js: prewarmAndSave, /cron/prewarm-daily and GET /cache/daily
\* over the memory map dailyCache and the files data/cache/daily/<date>/
\* <sign>.<lang>.json.  Dates are day numbers; the run explores two of the
\* twelve signs.
\* ------------------------------------------------------------------------
PwSigns == {"aries", "leo"}
\* the langs parameter of a prewarm run after split, trim and toLowerCase
PwLangLists == {<<"en", "hi">>, <<"en">>, <<"hi-in">>, <<"hi", "hi-in">>}
PwLangs == {"en", "hi", "hi-in"}
MaxWarmDays == 2
PwDates == 1..MaxWarmDays
PwKeys == {cacheKey(d, s, l) : d \in PwDates, s \in PwSigns, l \in PwLangs}

\* pickLang({lang}, headers): the lang given, else the x-lang header, else 'en'
pickLang(direct, xlang) ==
    IF direct # "" THEN (IF direct \in {"hi", "hi-in"} THEN "hi" ELSE "en")
    ELSE IF xlang # "" THEN (IF xlang \in {"hi", "hi-in"} THEN "hi" ELSE "en")
    ELSE "en"

\* the date, sign and lang fields of the record composeDaily({sign, lang,
\* now: dt}) returns, dateStr being toISTParts(dt).dateStr
WarmRecord(dateStr, sign, lang) == [date |-> dateStr, sign |-> sign, lang |-> lang]
\* JSON.stringify({ date: dateStr, sign, lang, rich: d }) as parsed again
WarmFile(dateStr, sign, lang, d) ==
    [date |-> dateStr, sign |-> sign, lang |-> lang, rich |-> <<d>>]

NoWarmGet == [asked |-> <<>>, status |-> 0, rec |-> <<>>]
NoWarm == [mem |-> [k \in PwKeys |-> <<>>], disk |-> [k \in PwKeys |-> <<>>],
           stored |-> {}, got |-> NoWarmGet]

\* prewarmAndSave(days, langs) started on day `today`
prewarmAndSave(w, days, langs) ==
    LET keys == {cacheKey(today + offset, s, langs[i]) :
                     offset \in 0..(days - 1), s \in PwSigns, i \in 1..Len(langs)}
    IN  [w EXCEPT
           !.mem = [k \in PwKeys |->
                       IF k \in keys THEN <<WarmRecord(k[1], k[2], k[3])>> ELSE w.mem[k]],
           !.disk = [k \in PwKeys |->
                        IF k \in keys
                        THEN <<WarmFile(k[1], k[2], k[3], WarmRecord(k[1], k[2], k[3]))>>
                        ELSE w.disk[k]],
           !.stored = w.stored \cup keys]

\* GET or POST /cron/prewarm-daily
PrewarmRun(days, langs) ==
    /\ pw' = prewarmAndSave(pw, days, langs)
    /\ UNCHANGED <<envVars, composeVars, day2Vars, day4Vars, fileVars, trVars,
                   routeVars, sse, pdf, probe, rep>>

\* the process restarts: the memory map is empty, the files stay
PwRestart ==
    /\ pw.stored # {}
    /\ pw' = [pw EXCEPT !.mem = [k \in PwKeys |-> <<>>]]
    /\ UNCHANGED <<envVars, composeVars, day2Vars, day4Vars, fileVars, trVars,
                   routeVars, sse, pdf, probe, rep>>

\* GET /cache/daily?date=..&sign=..&lang=..
CacheDailyGet(date, q, langQ) ==
    LET sign == Lower(q)
        lang == pickLang(langQ, "")
        key  == cacheKey(date, sign, lang)
        file == pw.disk[key]
        hit  == IF pw.mem[key] # <<>> THEN pw.mem[key]
                ELSE IF file # <<>> THEN file[1].rich
                ELSE <<>>
    IN  /\ pw' = [pw EXCEPT
                    !.mem[key] = hit,
                    !.got = [asked |-> <<cacheKey(date, sign, langQ)>>,
                             status |-> IF hit = <<>> THEN 404 ELSE 200,
                             rec |-> hit]]
        /\ UNCHANGED <<envVars, composeVars, day2Vars, day4Vars, fileVars, trVars,
                       routeVars, sse, pdf, probe, rep>>

\* ------------------------------------------------------------------------
\* quoteMoodAgent(seed) on seeds of [0, 2^32)
\* ------------------------------------------------------------------------
QuoteMoodCall(seed) ==
    /\ probe = NoProbe
    /\ probe' = [op |-> "quoteMood", seed |-> seed, out |-> quoteMoodAgent(seed)]
    /\ UNCHANGED Others

\* ------------------------------------------------------------------------
\* src/unnamed/part_004: the deterministic outline of a sign and a date and
\* the base template of polishWithLLM. Strings that are hashed are sequences
\* of their bytes, 32-bit words are pairs of 16-bit limbs
\* ------------------------------------------------------------------------
\* one bit position after the other of three 16-bit limbs
RECURSIVE Xor3(_, _, _, _)
Xor3(a, b, c, n) ==
    IF n = 0 THEN 0
    ELSE ((a + b + c) % 2) + (2 * Xor3(a \div 2, b \div 2, c \div 2, n - 1))
RECURSIVE ChBits(_, _, _, _)
ChBits(e, f, g, n) ==
    IF n = 0 THEN 0
    ELSE (IF e % 2 = 1 THEN f % 2 ELSE g % 2)
         + (2 * ChBits(e \div 2, f \div 2, g \div 2, n - 1))
RECURSIVE MajBits(_, _, _, _)
MajBits(a, b, c, n) ==
    IF n = 0 THEN 0
    ELSE (IF (a % 2) + (b % 2) + (c % 2) >= 2 THEN 1 ELSE 0)
         + (2 * MajBits(a \div 2, b \div 2, c \div 2, n - 1))
Bitwise(Op(_, _, _, _), x, y, z) ==
    <<Op(x[1], y[1], z[1], 16), Op(x[2], y[2], z[2], 16)>>
\* rotation and shift to the right of a 32-bit word, addition modulo 2^32
Rotr(x, n) ==
    LET y == IF n >= 16 THEN <<x[2], x[1]>> ELSE x
        p == 2 ^ (n % 16)
        q == 2 ^ (16 - (n % 16))
    IN  <<((y[1] \div p) + ((y[2] % p) * q)) % Limb,
          ((y[2] \div p) + ((y[1] % p) * q)) % Limb>>
Shr(x, n) ==
    LET p == 2 ^ n
        q == 2 ^ (16 - n)
    IN  <<x[1] \div p, (x[2] \div p) + ((x[1] % p) * q)>>
Add32(x, y) ==
    LET lo == x[2] + y[2]
    IN  <<(x[1] + y[1] + (lo \div Limb)) % Limb, lo % Limb>>

\* SHA-256 (FIPS 180-4) of a message of at most 55 bytes: one padded block
ShaK ==
    <<<<17034, 12184>>, <<28983, 17553>>, <<46528, 64463>>, <<59829, 56229>>,
      <<14678, 49755>>, <<23025, 4593>>, <<37439, 33444>>, <<43804, 24277>>,
      <<55303, 43672>>, <<4739, 23297>>, <<9265, 34238>>, <<21772, 32195>>,
      <<29374, 23924>>, <<32990, 45566>>, <<39900, 1703>>, <<49563, 61812>>,
      <<58523, 27073>>, <<61374, 18310>>, <<4033, 40390>>, <<9228, 41420>>,
      <<11753, 11375>>, <<19060, 33962>>, <<23728, 43484>>, <<30457, 35034>>,
      <<38974, 20818>>, <<43057, 50797>>, <<45059, 10184>>, <<48985, 32711>>,
      <<50912, 3059>>, <<54695, 37191>>, <<1738, 25425>>, <<5161, 10599>>,
      <<10167, 2693>>, <<11803, 8504>>, <<19756, 28156>>, <<21304, 3347>>,
      <<25866, 29524>>, <<30314, 2747>>, <<33218, 51502>>, <<37490, 11397>>,
      <<41663, 59553>>, <<43034, 26187>>, <<49739, 35696>>, <<51052, 20899>>,
      <<53650, 59417>>, <<54937, 1572>>, <<62478, 13701>>, <<4202, 41072>>,
      <<6564, 49430>>, <<7735, 27656>>, <<10056, 30540>>, <<13488, 48309>>,
      <<14620, 3251>>, <<20184, 43594>>, <<23452, 51791>>, <<26670, 28659>>,
      <<29839, 33518>>, <<30885, 25455>>, <<33992, 30740>>, <<36039, 520>>,
      <<37054, 65530>>, <<42064, 27883>>, <<48889, 41975>>, <<50801, 30962>>>>
ShaH ==
    <<<<27145, 58983>>, <<47975, 44677>>, <<15470, 62322>>, <<42319, 62778>>,
      <<20750, 21119>>, <<39685, 26764>>, <<8067, 55723>>, <<23520, 52505>>>>
ShaBlock(bytes) ==
    LET len == Len(bytes)
        b(i) == IF i <= len THEN bytes[i]
                ELSE IF i = len + 1 THEN 128
                ELSE IF i = 63 THEN (8 * len) \div 256
                ELSE IF i = 64 THEN (8 * len) % 256
                ELSE 0
    IN  [j \in 1..16 |-> <<(b((4 * j) - 3) * 256) + b((4 * j) - 2),
                          (b((4 * j) - 1) * 256) + b(4 * j)>>]
RECURSIVE ShaSchedule(_)
ShaSchedule(w) ==
    IF Len(w) = 64 THEN w
    ELSE LET i  == Len(w) + 1
             s0 == Bitwise(Xor3, Rotr(w[i - 15], 7), Rotr(w[i - 15], 18),
                           Shr(w[i - 15], 3))
             s1 == Bitwise(Xor3, Rotr(w[i - 2], 17), Rotr(w[i - 2], 19),
                           Shr(w[i - 2], 10))
         IN  ShaSchedule(Append(w, Add32(Add32(w[i - 16], s0),
                                         Add32(w[i - 7], s1))))
ShaT1(st, k, w) ==
    Add32(Add32(Add32(st[8], Bitwise(Xor3, Rotr(st[5], 6), Rotr(st[5], 11),
                                     Rotr(st[5], 25))),
                Add32(Bitwise(ChBits, st[5], st[6], st[7]), k)), w)
ShaT2(st) ==
    Add32(Bitwise(Xor3, Rotr(st[1], 2), Rotr(st[1], 13), Rotr(st[1], 22)),
          Bitwise(MajBits, st[1], st[2], st[3]))
ShaRound(st, t1, t2) ==
    <<Add32(t1, t2), st[1], st[2], st[3], Add32(st[4], t1), st[5], st[6], st[7]>>
RECURSIVE ShaRounds(_, _, _)
ShaRounds(st, w, i) ==
    IF i > 64 \/ Len(st) # 8 THEN st
    ELSE ShaRounds(ShaRound(st, ShaT1(st, ShaK[i], w[i]), ShaT2(st)), w, i + 1)
\* crypto.createHash('sha256').update(str).digest().readUInt32BE(0)
Sha256Word(bytes) ==
    Add32(ShaH[1], ShaRounds(ShaH, ShaSchedule(ShaBlock(bytes)), 1)[1])

\* the bytes of the strings that are hashed
SignBytes(sign) ==
    CASE sign = "aries" -> <<97, 114, 105, 101, 115>>
      [] sign = "taurus" -> <<116, 97, 117, 114, 117, 115>>
      [] sign = "gemini" -> <<103, 101, 109, 105, 110, 105>>
      [] sign = "cancer" -> <<99, 97, 110, 99, 101, 114>>
      [] sign = "leo" -> <<108, 101, 111>>
      [] sign = "virgo" -> <<118, 105, 114, 103, 111>>
      [] sign = "libra" -> <<108, 105, 98, 114, 97>>
      [] sign = "scorpio" -> <<115, 99, 111, 114, 112, 105, 111>>
      [] sign = "sagittarius" -> <<115, 97, 103, 105, 116, 116, 97, 114, 105, 117, 115>>
      [] sign = "capricorn" -> <<99, 97, 112, 114, 105, 99, 111, 114, 110>>
      [] sign = "aquarius" -> <<97, 113, 117, 97, 114, 105, 117, 115>>
      [] sign = "pisces" -> <<112, 105, 115, 99, 101, 115>>
SaltBytes(salt) ==
    CASE salt = "color" -> <<99, 111, 108, 111, 114>>
      [] salt = "focus" -> <<102, 111, 99, 117, 115>>
      [] salt = "opening" -> <<111, 112, 101, 110, 105, 110, 103>>
      [] salt = "remedy" -> <<114, 101, 109, 101, 100, 121>>
      [] salt = "do1" -> <<100, 111, 49>>
      [] salt = "do2" -> <<100, 111, 50>>
      [] salt = "dont1" -> <<100, 111, 110, 116, 49>>
      [] salt = "dont2" -> <<100, 111, 110, 116, 50>>
Colon == <<58>>
\* YYYY-MM-DD
DateBytes(dateISO) ==
    LET y == dateISO[1]
        m == dateISO[2]
        d == dateISO[3]
    IN  <<48 + (y \div 1000), 48 + ((y \div 100) % 10), 48 + ((y \div 10) % 10),
          48 + (y % 10), 45, 48 + (m \div 10), 48 + (m % 10), 45,
          48 + (d \div 10), 48 + (d % 10)>>
\* String(n) of a number n = hi * 2^16 + lo, hi up to 2^16
RECURSIVE DecimalBytes(_, _)
DecimalBytes(hi, lo) ==
    LET t == ((hi % 10) * Limb) + lo
    IN  IF hi = 0 /\ lo < 10 THEN <<48 + lo>>
        ELSE Append(DecimalBytes(hi \div 10, t \div 10), 48 + (t % 10))
\* seed + 1 is not reduced: a number of JavaScript
SeedPlus1(seed) ==
    IF seed[2] = Limb - 1 THEN <<seed[1] + 1, 0>> ELSE <<seed[1], seed[2] + 1>>

shaSeed(bytes) == Sha256Word(bytes)
\* pickSeeded(arr, seed, salt): the index n % arr.length into a list of len
\* n % len of a 32-bit word n
ModLen(n, len) == (((n[1] % len) * (Limb % len)) + (n[2] % len)) % len
pickSeeded(len, seed, salt) ==
    ModLen(Sha256Word(DecimalBytes(seed[1], seed[2]) \o Colon \o SaltBytes(salt)),
           len)
RECURSIVE DigitSum(_)
DigitSum(n) == IF n < 10 THEN n ELSE (n % 10) + DigitSum(n \div 10)
RECURSIVE DigitRoot(_)
DigitRoot(sum) == IF sum > 9 THEN DigitRoot(DigitSum(sum)) ELSE sum
digitalRootFromISO(dateISO) ==
    LET sum == DigitRoot(DigitSum(dateISO[1]) + DigitSum(dateISO[2])
                         + DigitSum(dateISO[3]))
    IN  IF sum = 0 THEN 9 ELSE sum

WEEKDAY_PLANET == <<"Sun", "Moon", "Mars", "Mercury", "Jupiter", "Venus", "Saturn">>
PLANET_NUMBERS == <<1, 2, 9, 5, 3, 6, 8>>
PlanetColorsLen == 3
FocusAreasLen == 8
RemediesLen == 7
DoListLen == 5
DontListLen == 5
OpeningsLen == 6
\* Array.from(new Set([x, y])).slice(0, 2)
Distinct2(x, y) == IF x = y THEN <<x>> ELSE <<x, y>>

\* the outline of a seed; an element of a list is the list's name and the
\* index
OutlineOfSeed(seed, dateISO, dayIdx) ==
    [planet |-> WEEKDAY_PLANET[dayIdx + 1],
     color |-> <<WEEKDAY_PLANET[dayIdx + 1], pickSeeded(PlanetColorsLen, seed, "color")>>,
     luckyNumber |-> PLANET_NUMBERS[dayIdx + 1],
     dayNumber |-> digitalRootFromISO(dateISO),
     focus |-> <<"FOCUS_AREAS", pickSeeded(FocusAreasLen, seed, "focus")>>,
     opening |-> <<"OPENINGS", pickSeeded(OpeningsLen, seed, "opening")>>,
     remedy |-> <<"REMEDIES", pickSeeded(RemediesLen, seed, "remedy")>>,
     dos |-> Distinct2(<<"DO_LIST", pickSeeded(DoListLen, seed, "do1")>>,
                       <<"DO_LIST", pickSeeded(DoListLen, SeedPlus1(seed), "do2")>>),
     donts |-> Distinct2(<<"DONT_LIST", pickSeeded(DontListLen, seed, "dont1")>>,
                         <<"DONT_LIST", pickSeeded(DontListLen, SeedPlus1(seed), "dont2")>>)]
\* buildOutline({sign, dateISO, dayIdx})
buildOutline(sign, dateISO, dayIdx) ==
    OutlineOfSeed(shaSeed(SignBytes(sign) \o Colon \o DateBytes(dateISO)),
                  dateISO, dayIdx)

\* ${arr[i]} of a template literal: "undefined" past the end of the array
Undefined == <<"undefined">>
Interpolate(arr, i) == IF i < Len(arr) THEN arr[i + 1] ELSE Undefined
\* the base template of polishWithLLM: the two bullets under Do and under
\* Don't, and the fields the other lines are built from
polishBase(sign, dateISO, outline, dayIdx) ==
    [title |-> <<sign, dateISO>>,
     opening |-> <<outline.opening, outline.planet, outline.focus>>,
     lucky |-> <<outline.color, outline.luckyNumber, outline.dayNumber>>,
     rahuKaal |-> dayIdx,
     doBullets |-> <<Interpolate(outline.dos, 0), Interpolate(outline.dos, 1)>>,
     dontBullets |-> <<Interpolate(outline.donts, 0), Interpolate(outline.donts, 1)>>,
     remedy |-> outline.remedy]

\* the signs and the instants the outline is built for: 14:00 UTC of 26 and
\* 27 January 2025
OutlineSigns == {"aries", "taurus"}
OutlineInstants == {(25 * MinutesPerDay) + 840, (26 * MinutesPerDay) + 840}
\* orchestrateDaily for today's IST date without a key: buildOutline, then
\* the base template
OutlineCall(sign, now) ==
    /\ probe = NoProbe
    /\ LET dateISO == IstDate(now)
           dayIdx  == Civil(KolkataClock(now)).wd
       IN  \E outline \in {buildOutline(sign, dateISO, dayIdx)} :
               probe' = [op |-> "outline", sign |-> sign, dateISO |-> dateISO,
                         outline |-> outline,
                         base |-> polishBase(sign, dateISO, outline, dayIdx)]
    /\ UNCHANGED Others

\* ------------------------------------------------------------------------
\* Specifications: one per part of the service; the variables of the other
\* parts stay as they start
\* ------------------------------------------------------------------------
\* the start of the service on a server with one of the given time zones, Intl
\* support and credential settings
Start(tzs, intls, keys) ==
    /\ tzOffset \in tzs
    /\ intlOk \in intls
    /\ apiKey \in keys
    /\ today = 1
    /\ wall = 1
    /\ composed = <<NoCall, NoCall>>
    /\ dailyCacheDate = 0
    /\ dailyCache = EmptyDaily
    /\ reqs = [r \in ReqIds |-> NewReq]
    /\ currentDateISO = 0
    /\ enCache = EmptyEn
    /\ langCache = EmptyLg
    /\ jobs = [j \in JobIds |-> NewJob]
    /\ didReset = FALSE
    /\ dailyCacheMap = [k \in CacheKeys |-> <<>>]
    /\ files = [f \in FilePaths |-> <<>>]
    /\ written = [k \in CacheKeys |-> <<>>]
    /\ lastGet = NoGet
    /\ cache = <<>>
    /\ trOut = NoTr
    /\ served = <<NoServed, NoServed>>
    /\ sse = NoSse
    /\ pdf = <<NoPdf, NoPdf>>
    /\ probe = NoProbe
    /\ rep = NoRep
    /\ pw = NoWarm

ComposeInit == Start(TzOffsets, BOOLEAN, {FALSE})
SpecCompose == ComposeInit /\ [][ComposeCall]_vars

Daily2Next ==
    \/ \E r \in ReqIds, q \in QuerySigns : DailyGet2(r, q)
    \/ \E r \in ReqIds, reply \in Replies : DailyReply2(r, reply)
    \/ Midnight

Daily2Init == Start({0}, {TRUE}, BOOLEAN)
SpecDaily2 == Daily2Init /\ [][Daily2Next]_vars

Daily4Next ==
    \/ \E j \in JobIds, route \in {"daily", "weekly"}, q \in QuerySigns, lang \in Langs4 :
           Request4(j, route, q, lang)
    \/ \E j \in JobIds, reply \in Replies4 : PolishReply4(j, reply)
    \/ \E j \in JobIds, reply \in Replies4 : TranslateReply4(j, reply)
    \/ Midnight

Daily4Init == Start({0}, {TRUE}, BOOLEAN)
SpecDaily4 == Daily4Init /\ [][Daily4Next]_vars

FileNext ==
    \/ \E d \in FileDates, sign \in FileSigns, lang \in FileLangs, c \in Contents :
           saveCachedDaily(d, sign, lang, c)
    \/ \E d \in FileDates, sign \in FileSigns, lang \in FileLangs :
           loadCachedDaily(d, sign, lang)
    \/ Restart

FileInit == Start({0}, {TRUE}, {FALSE})
SpecFile == FileInit /\ [][FileNext]_vars

TranslateNext ==
    \/ \E text \in TextPool, to \in Langs, reply \in TrRepliesNow :
           TranslateCall(text, to, reply)
    \/ \E text \in TextPool, to \in Langs, reply \in TrRepliesNow :
           TranslateCachedCall(text, to, reply)

TranslateInit == Start({0}, {TRUE}, BOOLEAN)
SpecTranslate == TranslateInit /\ [][TranslateNext]_vars

\* the translation cache after MAX_CACHE different texts have been translated
FullCache ==
    [i \in 1..MAX_CACHE |-> <<<<"hi", <<"text", i, i>>>>, <<"dev:text", i, i>>>>]

\* the service with its translation cache full
TranslateFullInit ==
    /\ tzOffset = 0
    /\ intlOk = TRUE
    /\ apiKey \in BOOLEAN
    /\ today = 1
    /\ wall = 1
    /\ composed = <<NoCall, NoCall>>
    /\ dailyCacheDate = 0
    /\ dailyCache = EmptyDaily
    /\ reqs = [r \in ReqIds |-> NewReq]
    /\ currentDateISO = 0
    /\ enCache = EmptyEn
    /\ langCache = EmptyLg
    /\ jobs = [j \in JobIds |-> NewJob]
    /\ didReset = FALSE
    /\ dailyCacheMap = [k \in CacheKeys |-> <<>>]
    /\ files = [f \in FilePaths |-> <<>>]
    /\ written = [k \in CacheKeys |-> <<>>]
    /\ lastGet = NoGet
    /\ cache = FullCache
    /\ trOut = NoTr
    /\ served = <<NoServed, NoServed>>
    /\ sse = NoSse
    /\ pdf = <<NoPdf, NoPdf>>
    /\ probe = NoProbe
    /\ rep = NoRep
    /\ pw = NoWarm
SpecTranslateFull == TranslateFullInit /\ [][TranslateNext]_vars

RoutesNext ==
    \/ \E q \in QuerySignsF : GetDaily(q)
    \/ \E b \in BodySignsF, framework \in Frameworks : PostDaily(b, framework)
    \/ \E b \in BodySignsF : ReportFromDaily(b)
    \/ \E reply \in Replies : ReportGenerate3(reply)
    \/ \E reply \in Replies : ReportGenerate4(reply)
    \/ \E reply \in Replies : Chat4(reply)
    \/ Tick

RoutesInit == Start({0}, {TRUE}, BOOLEAN)
SpecRoutes == RoutesInit /\ [][RoutesNext]_vars

StreamNext ==
    \/ \E variant \in {"bridge", "drip"}, plan \in StreamPlans, n \in FullLengths :
           StreamStart(variant, plan, n)
    \/ \E reply \in SseReplies : BridgeReply(reply)
    \/ \E k \in 1..MaxChunk : BodyChunk(k)
    \/ BodyEnd
    \/ BodyError
    \/ \E reply \in SseReplies : DripReply(reply)
    \/ DripTick
    \/ Close
    \/ AbortCaught

StreamInit == Start({0}, {TRUE}, BOOLEAN)
SpecStream == StreamInit /\ [][StreamNext]_vars

\* the server's own steps are taken when they can be; the upstream service
\* owes no answer
SpecStreamLive ==
    SpecStream /\ WF_vars(DripTick) /\ WF_vars(AbortCaught)

PdfNext ==
    \E variant \in PdfVariants, b64 \in LogoB64s, url \in LogoUrls, disk \in DiskLogos :
        ReportPdf(variant, b64, url, disk)

PdfInit == Start({0}, {TRUE}, {FALSE})
SpecPdf == PdfInit /\ [][PdfNext]_vars

ProbeNext ==
    \/ \E len \in 0..MaxPool, n \in 0..MaxCount, seed \in ProbeSeeds :
           PickNCall(len, n, seed)
    \/ \E t \in ProbeInstants : IstPartsCall(t)
    \/ \E sign \in ProbeSigns, now \in ProbeInstants, lang \in Langs :
           FortuneCall(sign, now, lang)
    \/ \E now \in ProbeInstants, lang \in Langs, user \in ProbeUsers :
           SpecialCall(now, lang, user)
    \/ \E variant \in {"server", "part_004"}, now \in ProbeInstants :
           DailyVedic(variant, now)
    \/ \E start \in WeeklyStarts : WeeklyVedic(start)
    \/ \E sign \in SIGNS \cup {"Aries", "dragon"} : GemCall(sign)
    \/ \E seed \in ProbeSeeds : QuoteMoodCall(seed)
    \/ \E sign \in OutlineSigns, now \in OutlineInstants : OutlineCall(sign, now)
    \/ \E variant \in {"server", "part_002", "part_004"}, start \in WeeklyStarts :
           WeeklyReport(variant, start)

ProbeInit == Start(TzOffsets, BOOLEAN, {FALSE})
SpecProbe == ProbeInit /\ [][ProbeNext]_vars

RepNext ==
    \/ \E variant \in RepVariants, b64 \in LogoB64s, url \in LogoUrls, throws \in BOOLEAN :
           RepStart(variant, b64, url, throws)
    \/ RepLogoSettles
    \/ RepDaySettles

RepInit == Start({0}, {TRUE}, BOOLEAN)
SpecRep == RepInit /\ [][RepNext]_vars
\* a pending fetch or composeDaily settles and the handler runs on
SpecRepLive == SpecRep /\ WF_vars(RepLogoSettles) /\ WF_vars(RepDaySettles)

WarmNext ==
    \/ \E days \in 1..MaxWarmDays, langs \in PwLangLists : PrewarmRun(days, langs)
    \/ PwRestart
    \/ \E date \in PwDates, q \in {"leo", "Aries"}, langQ \in PwLangs :
           CacheDailyGet(date, q, langQ)

WarmInit == Start({0}, {TRUE}, {FALSE})
SpecWarm == WarmInit /\ [][WarmNext]_vars


\* ------------------------------------------------------------------------
\* Properties
\* ------------------------------------------------------------------------
\* the entry cached by getDaily for (sign, lang) in the caches en, lg
Entry4(en, lg, sign, lang) ==
    IF lang = "en" THEN en[sign]
    ELSE IF lg[sign] = <<>> THEN <<>> ELSE lg[sign][1][lang]

DailyRoutes == {"GET /daily", "POST /daily"}

\* C3: after one daily request for a key has completed, a later daily request
\* for the same key on the same IST date is served from the cache: no new
\* composition, no upstream call, the same text.
C3_ServedFromCache ==
    (/\ served[1].route \in DailyRoutes /\ served[2].route \in DailyRoutes
     /\ served[1].status = 200 /\ served[2].status = 200
     /\ served[1].sign = served[2].sign
     /\ served[1].date = served[2].date)
    => (/\ served[2].compose = 0
        /\ served[2].upstream = 0
        /\ served[2].text = served[1].text)

C5_RaceHarmless ==
    \A a \in ReqIds, b \in ReqIds :
        (/\ reqs[a].pc = "done" /\ reqs[b].pc = "done"
         /\ reqs[a].upstream # "none" /\ reqs[b].upstream # "none"
         /\ reqs[a].resp.status = 200 /\ reqs[b].resp.status = 200
         /\ reqs[a].sign = reqs[b].sign
         /\ reqs[a].resp.date = reqs[b].resp.date)
        => reqs[a].resp.text = reqs[b].resp.text

\* C6: without a credential, or when the upstream call fails (network error,
\* non-success status, malformed or empty response), translateAgent returns its
\* input text unmodified.
C6_ReturnsInput ==
    (/\ trOut.variant # ""
     /\ \/ ~apiKey
        \/ trOut.upstream \in {"neterr", "status", "badjson", "empty"})
    => trOut.result = trOut.text

\* C7: without a credential every content endpoint answers 200 with fallback
\* content and makes no upstream call; only POST /chat answers 500.
C7_FallbackEverywhere ==
    (~apiKey /\ served[2].route # "" /\ ~served[2].threw)
    => IF served[2].route = "POST /chat" THEN served[2].status = 500
       ELSE served[2].status = 200 /\ served[2].upstream = 0

\* C8: when the completion service is unreachable or answers non-200, GET
\* /daily substitutes the fallback text and still answers 200.
C8_UpstreamErrorFallback ==
    \A r \in ReqIds :
        (reqs[r].pc = "done" /\ reqs[r].upstream \in {"neterr", "status"})
        => /\ reqs[r].resp.status = 200
           /\ reqs[r].resp.text = FallbackError(reqs[r].sign)

\* C9: a request whose sign is not one of the 12 zodiac identifiers, or is
\* missing, is answered 400 and composeDaily is not invoked.
C9_InvalidSignRejected ==
    (served[2].route \in DailyRoutes /\ served[2].sign \notin SIGNS)
    => served[2].status = 400 /\ served[2].compose = 0

\* C10: an exception raised in a route handler is answered with exactly one
\* response, 500 {error: "Server error"}, never the exception's message.
C10_GenericServerError ==
    served[2].threw
    => /\ served[2].responses = 1
       /\ served[2].status = 500
       /\ served[2].error = ServerError


\* the pieces of the writes of one kind, in the order written
PiecesOf(out, kind) ==
    LET ws == SelectSeq(out, LAMBDA w : w.kind = kind)
    IN  [k \in 1..Len(ws) |-> ws[k].piece]
RECURSIVE Flatten(_)
Flatten(ps) == IF ps = <<>> THEN <<>> ELSE Head(ps) \o Flatten(Tail(ps))

\* the data lines a stream plan holds: one per complete event, then what is
\* left of a cut event
PlanPieces(plan) ==
    IF plan.term = "cut"
    THEN [k \in 1..(Len(plan.events) - 1) |-> <<plan.events[k]>>]
             \o <<<<"data:", plan.events[Len(plan.events)]>>>>
    ELSE [k \in 1..Len(plan.events) |-> <<plan.events[k]>>]

C12_AbortOnDisconnect ==
    sse.closed => (~sse.upActive /\ ~sse.late)

\* C13: a stream request never waits on the upstream without bound: once its
\* upstream call is made, the response is eventually ended.
C13_StreamEnds ==
    (sse.pc = "fetch") ~> sse.ended


\* the logo of a report request failed: bytes that are no image, a logo URL
\* that is unreachable or answers non-2xx or with bytes that are no image
LogoFailed(r) ==
    LET b64 == IF r.variant = "server" THEN ensureBrandWithLogo(r.b64, r.disk)
               ELSE r.b64
    IN  \/ b64 = "garbage"
        \/ /\ r.variant # "server" /\ b64 = "none"
           /\ r.url \in {"garbage", "status", "unreachable"}

\* C14: a failed logo fetch or decode is skipped silently: the report is
\* written completely and ended, answered 200, without the logo.
C14_LogoFailureSkipped ==
    \A k \in 1..2 :
        (pdf[k].variant # "" /\ LogoFailed(pdf[k]))
        => /\ pdf[k].status = 200
           /\ pdf[k].sections /\ pdf[k].ended
           /\ ~pdf[k].drawn

\* a report whose logo URL was unreachable, and one whose logo bytes were no
\* image, have both been written
C14_Witness ==
    /\ pdf[1].variant = "part_002" /\ pdf[1].b64 = "none" /\ pdf[1].url = "unreachable"
    /\ pdf[2].variant = "server" /\ pdf[2].b64 = "garbage"
    /\ pdf[1].ended /\ pdf[2].ended


\* the indices of a pickN result are pairwise distinct and in the pool
DistinctIndices(out, len) ==
    /\ \A i \in 1..Len(out) : out[i] \in 1..len
    /\ \A i, j \in 1..Len(out) : i # j => out[i] # out[j]

\* C15: for a pool of at least 3 elements and every seed, pickN(pool, 3, seed)
\* returns exactly 3 elements from 3 pairwise distinct indices of the pool.
C15_ThreeDistinct ==
    (probe.op = "pickN" /\ probe.n = 3 /\ probe.len >= 3)
    => /\ Len(probe.out) = 3
       /\ DistinctIndices(probe.out, probe.len)

\* pickN(OPP_POOL, 3, seed) and pickN(CAUT_POOL, 3, seed) have been called
\* with the largest seed
C15_Witness ==
    /\ probe.op = "pickN" /\ probe.n = 3
    /\ probe.len \in {OppPoolLen, CautPoolLen}
    /\ probe.seed = <<Limb - 1, Limb - 1>>
    /\ Len(probe.out) = 3

\* C16: pickN terminates for every seed, list and n with min(n, length)
\* elements; when n >= length the result is a permutation of the whole list.
C16_Terminates ==
    probe.op = "pickN"
    => /\ probe.out # Diverges
       /\ Len(probe.out) = Min(probe.n, probe.len)
       /\ (probe.n >= probe.len
           => {probe.out[i] : i \in 1..Len(probe.out)} = 1..probe.len)

\* a whole list of 6 elements has been drawn, and the empty list has been
\* asked for 3
C16_Witness ==
    /\ probe.op = "pickN"
    /\ \/ probe.len = 6 /\ probe.n = 6 /\ Len(probe.out) = 6
       \/ probe.len = 0 /\ probe.n = 3 /\ probe.out = <<>>

\* the month-day of the user's dob is the IST month-day of the instant
DobMatches(user, c) ==
    /\ user.dob # <<>>
    /\ user.dob = <<Pad2(c.m), Pad2(c.d)>>

\* C17: specialDayAgent returns null exactly when the IST month-day matches
\* neither the user's dob nor a fixed observance; otherwise one object whose
\* birthday is non-null iff the dob matches and whose observance is non-null
\* iff the date is in the fixed-date table.
C17_SpecialDay ==
    probe.op = "special"
    => LET c == Civil(KolkataClock(probe.now))
           dob == DobMatches(probe.user, c)
           fixed == <<c.m, c.d>> \in FIXED_DAYS
       IN  /\ (probe.out = <<>>) <=> (~dob /\ ~fixed)
           /\ probe.out # <<>>
              => /\ Len(probe.out) = 1
                 /\ (probe.out[1].birthday # <<>>) <=> dob
                 /\ (probe.out[1].observance # <<>>) <=> fixed

\* the agent has answered null for 27 January 01:30 IST to a user born on
\* 26 January
C17_Witness ==
    /\ probe.op = "special" /\ probe.now = (25 * MinutesPerDay) + 1200
    /\ probe.user.dob = <<Pad2(1), Pad2(26)>>
    /\ probe.out = <<>>

\* the IST weekday of an instant, Sunday = 0
IstWeekday(t) == Civil(KolkataClock(t)).wd

\* C18: the Vedic windows of a daily response and of each of the 7 days of a
\* weekly report are the fixed-table row of that day's IST weekday.
C18_VedicRowOfWeekday ==
    /\ probe.op = "dailyVedic"
       => probe.vedic = approxVedicSlots12h(IstWeekday(probe.now))
    /\ probe.op = "weeklyVedic"
       => \A i \in 1..WeekDays :
              probe.rows[i].timings = approxVedicSlots12h(IstWeekday(probe.rows[i].ts))

\* C19: for every instant and server time zone the fallback branch of
\* toISTParts returns the dateStr, timeStr and weekdayIndex of the Intl branch.
C19_FallbackAgrees ==
    probe.op = "toISTParts"
    => /\ probe.viaFallback.dateStr = probe.viaIntl.dateStr
       /\ probe.viaFallback.timeStr = probe.viaIntl.timeStr
       /\ probe.viaFallback.weekdayIndex = probe.viaIntl.weekdayIndex

\* the index of a sign in zodiac order, 0 for any other string
ZodiacIndex(sign) ==
    IF \E i \in 1..12 : Zodiac[i] = sign
    THEN (CHOOSE i \in 1..12 : Zodiac[i] = sign) - 1 ELSE 0

\* C20: for every sign and date the lucky number is
\* ((IST day-of-month + signIndex) mod 9) + 1, an integer in 1..9.
C20_LuckyNumber ==
    probe.op = "fortune"
    => /\ probe.out.luckyNumber
            = ((Civil(KolkataClock(probe.now)).d + ZodiacIndex(probe.sign)) % 9) + 1
       /\ probe.out.luckyNumber \in 1..9

\* the lucky number of an unknown sign has been computed at 01:30 IST of the
\* 27th on a server that is not on IST
C20_Witness ==
    /\ probe.op = "fortune" /\ probe.sign = "dragon"
    /\ probe.now = (25 * MinutesPerDay) + 1200
    /\ tzOffset # IstShift
    /\ probe.out.luckyNumber = 1


\* C21: one sign's plan does not carry the gemstone of its ruling planet but
\* a caveated alternative; each of the other eleven signs gets exactly the
\* plan of its ruling planet.
C21_OneOverride ==
    (probe.op = "gem" /\ Lower(probe.sign) \in SIGNS)
    => LET ruling == GemPlans[rulerForSign(probe.sign)]
       IN  IF Lower(probe.sign) = "aries"
           THEN probe.plan.primary # ruling.primary /\ probe.plan.note # <<>>
           ELSE probe.plan = ruling


\* C22: a weekly report has exactly 7 day sections, for 7 consecutive IST
\* dates starting with today's, each holding the content composed for its
\* own date.
C22_SevenConsecutiveDays ==
    probe.op = "weekly"
    => /\ Len(probe.sections) = 7
       /\ \A i \in 1..7 :
              probe.sections[i].date
                  = IstDate(probe.start + ((i - 1) * MinutesPerDay))


\* C23: every entry stored in the per-date cache was generated for the
\* cache's current date, and no response pairs a date with a text generated
\* for another date.
C23_StoredForCurrentDate ==
    /\ \A s \in CacheSigns :
           enCache[s] # <<>> => enCache[s][1].text.body[3] = currentDateISO
    /\ \A j \in JobIds :
           (jobs[j].route = "daily" /\ jobs[j].resp.status = 200)
           => jobs[j].resp.text.body[3] = jobs[j].resp.date


\* C24: a getDaily call for a non-English language always completes with a
\* result: a reset of the caches while it awaits the translation cannot make
\* its request fail.
C24_TranslatedCallCompletes ==
    \A j \in JobIds :
        (jobs[j].pc = "done" /\ jobs[j].lang # "en" /\ jobs[j].sign \in SIGNS)
        => jobs[j].resp.status = 200


\* C25: the day header and the timeIST of a composed record denote the IST
\* day and clock time of the record's date field and of toISTParts' timeStr.
C25_HeaderMatchesDate ==
    \A k \in 1..2 :
        composed[k].now >= 0
        => LET rec == composed[k].rec
               h   == rec.header.dayHeader
           IN  /\ <<h[5], h[4], h[3]>> = rec.date
               /\ rec.timeIST[1] = toISTParts(composed[k].now, tzOffset, intlOk).timeStr


\* C26: once the PDF response of a report route has been started, the
\* response is eventually ended, by doc.end() or by an error response.
C26_ResponseEnds == (rep.pc # "idle") ~> rep.ended


\* C27: an entry a prewarm run stored for (date, sign, lang) is returned by
\* GET /cache/daily called with that date, sign and lang, and the record's
\* date, sign and lang are those of the request.
C27_PrewarmedIsServed ==
    (pw.got.asked # <<>> /\ pw.got.asked[1] \in pw.stored)
    => /\ pw.got.status = 200
       /\ pw.got.rec # <<>>
       /\ cacheKey(pw.got.rec[1].date, pw.got.rec[1].sign, pw.got.rec[1].lang)
              = pw.got.asked[1]


\* C28: after every translateAgent call the translation cache holds at most
\* MAX_CACHE entries.
C28_CacheBounded == Len(cache) <= MAX_CACHE


\* C29: for every seed of [0, 2^32) the waterGlasses of quoteMoodAgent is an
\* integer from 8 to 12.
C29_WaterGlassesInRange ==
    probe.op = "quoteMood" => probe.out.waterGlasses \in 8..12


\* C30: for every sign and date buildOutline yields two distinct Do items and
\* two distinct Don't items, so that no bullet of the base text of
\* polishWithLLM reads "undefined".
C30_TwoDistinctBullets ==
    probe.op = "outline" =>
        /\ Len(probe.outline.dos) = 2
        /\ probe.outline.dos[1] # probe.outline.dos[2]
        /\ Len(probe.outline.donts) = 2
        /\ probe.outline.donts[1] # probe.outline.donts[2]
        /\ \A i \in 1..2 : /\ probe.base.doBullets[i] # Undefined
                           /\ probe.base.dontBullets[i] # Undefined

=============================================================================
